------------------------------ MODULE Spec2Model ------------------------------
(***************************************************************************)
(* Alfen Eve Modbus simulator (src/simulator/simulator.py) and the Home    *)
(* Assistant number entity (src/custom_components/alfen_modbus/number.py). *)
(*                                                                         *)
(* Numbers that Python holds as floats are rationals here: a pair <<n, d>> *)
(* with d > 0 stands for n / d.  Strings are sequences of code points,     *)
(* byte strings sequences of 0..255, registers sequences of 0..65535.      *)
(***************************************************************************)
EXTENDS Integers, Sequences, FiniteSets, TLC

\* ---------------------------------------------------------------- helpers
Min(a, b) == IF a <= b THEN a ELSE b
Max(a, b) == IF a >= b THEN a ELSE b
Last(s) == s[Len(s)]

Pow2(k) == 2 ^ k

\* the sequences of ss[lo..hi] joined, halves first
RECURSIVE FlattenRange(_, _, _)
FlattenRange(ss, lo, hi) ==
    IF lo > hi THEN <<>>
    ELSE IF lo = hi THEN ss[lo]
    ELSE FlattenRange(ss, lo, (lo + hi) \div 2)
            \o FlattenRange(ss, ((lo + hi) \div 2) + 1, hi)

Flatten(ss) == FlattenRange(ss, 1, Len(ss))

\* v shifted right by k bits, for 0 <= v < 2^31
ShiftRight(v, k) == IF k > 30 THEN 0 ELSE v \div Pow2(k)

\* A Python integer given to the 32- and 64-bit codecs can exceed the model
\* checker's integers: it is a wide natural <<a2, a1, a0>>, three digits of
\* base 2^24, standing for a2 * 2^48 + a1 * 2^24 + a0.
Limb == 16777216

\* the wide natural of a small natural n
Wide(n) == <<0, n \div Limb, n % Limb>>

\* n big-endian bytes of the wide natural v (struct.pack('>I'), ('>Q')): byte
\* k from the right is byte k % 3 of digit k \div 3
BytesBE(v, n) ==
    [i \in 1..n |->
        LET k == n - i
        IN  IF k >= 9 THEN 0 ELSE (v[3 - (k \div 3)] \div (256 ^ (k % 3))) % 256]

\* the w-bit big-endian binary numeral of v
BitsBE(v, w) == [i \in 1..w |-> ShiftRight(v, w - i) % 2]

\* the byte of eight bits, most significant first
BitsValue(bits) ==
    128 * bits[1] + 64 * bits[2] + 32 * bits[3] + 16 * bits[4]
        + 8 * bits[5] + 4 * bits[6] + 2 * bits[7] + bits[8]

\* bits (a multiple of 8 of them) packed into bytes, most significant first
BitsToBytes(bits) ==
    [i \in 1..(Len(bits) \div 8) |-> BitsValue(SubSeq(bits, 8 * i - 7, 8 * i))]

\* ------------------------------------------------------- IEEE-754 packing
\* floor(log2(n / d)) for n >= d > 0
ExpUp(n, d) ==
    LET q == n \div d
    IN  CHOOSE e \in 0..30 : Pow2(e) <= q /\ q \div 2 < Pow2(e)

\* the least k with n * 2^k >= d, for 0 < n < d
ExpDown(n, d) ==
    LET c == (d + n - 1) \div n
    IN  CHOOSE k \in 0..30 : Pow2(k) >= c /\ (k = 0 \/ Pow2(k - 1) < c)

\* m >= 1 fraction bits of r / D (0 <= r < D) by long division, and the
\* remainder left after them; the digits are produced half by half
RECURSIVE MantBits(_, _, _)
MantBits(r, D, m) ==
    IF m = 1
    THEN IF 2 * r >= D THEN [bits |-> <<1>>, r |-> 2 * r - D]
                       ELSE [bits |-> <<0>>, r |-> 2 * r]
    ELSE LET hi == MantBits(r, D, m \div 2)
             lo == MantBits(hi.r, D, m - (m \div 2))
         IN  [bits |-> hi.bits \o lo.bits, r |-> lo.r]

\* bits + 1 as a numeral of the same width (all ones wraps to all zeros)
IncBits(bits) ==
    LET zeros == {i \in 1..Len(bits) : bits[i] = 0}
        p == IF zeros = {} THEN 0 ELSE CHOOSE i \in zeros : \A j \in zeros : j <= i
    IN  [i \in 1..Len(bits) |-> IF i < p THEN bits[i] ELSE IF i = p THEN 1 ELSE 0]

\* struct.pack('>f') (ebits = 8, mbits = 23) and struct.pack('>d') (11, 52) of
\* the rational n / d, a zero or a normal number: sign, biased exponent,
\* fraction rounded to nearest, ties to even.
ieee_pack(n, d, ebits, mbits) ==
    LET sign == IF n < 0 THEN 1 ELSE 0
        a    == IF n < 0 THEN -n ELSE n
        bias == Pow2(ebits - 1) - 1
    IN  IF a = 0 THEN BitsToBytes(<<sign>> \o [i \in 1..(ebits + mbits) |-> 0])
        ELSE LET up   == a >= d
                 e    == IF up THEN ExpUp(a, d) ELSE -ExpDown(a, d)
                 num  == IF up THEN a ELSE a * Pow2(-e)
                 den  == IF up THEN d * Pow2(e) ELSE d
                 cut  == MantBits(num - den, den, mbits)
                 rnd  == \/ 2 * cut.r > den
                         \/ 2 * cut.r = den /\ Last(cut.bits) = 1
                 frac == IF rnd THEN IncBits(cut.bits) ELSE cut.bits
                 cy   == IF rnd /\ \A i \in 1..mbits : cut.bits[i] = 1 THEN 1 ELSE 0
             IN  BitsToBytes(<<sign>> \o BitsBE(e + bias + cy, ebits) \o frac)

\* --------------------------------------------------- encoding utilities
\* to_registers joining each pair of bytes low byte first
to_registers_le(data_bytes) ==
    LET b == IF Len(data_bytes) % 2 # 0 THEN Append(data_bytes, 0) ELSE data_bytes
    IN  [i \in 1..(Len(b) \div 2) |-> b[2 * i - 1] + 256 * b[2 * i]]

\* simulator.py:101-105
to_registers(data_bytes) ==
    LET b == IF Len(data_bytes) % 2 # 0 THEN Append(data_bytes, 0) ELSE data_bytes
    IN  [i \in 1..(Len(b) \div 2) |-> 256 * b[2 * i - 1] + b[2 * i]]

\* str.encode('utf-8') of one code point
utf8_char(c) ==
    IF c < 128 THEN <<c>>
    ELSE IF c < 2048 THEN <<192 + (c \div 64), 128 + (c % 64)>>
    ELSE IF c < 65536
    THEN <<224 + (c \div 4096), 128 + ((c \div 64) % 64), 128 + (c % 64)>>
    ELSE <<240 + (c \div 262144), 128 + ((c \div 4096) % 64),
           128 + ((c \div 64) % 64), 128 + (c % 64)>>

utf8_encode(s) == Flatten([i \in 1..Len(s) |-> utf8_char(s[i])])

\* encode_string without the NUL padding
encode_string_unpadded(s, length) ==
    to_registers(utf8_encode(SubSeq(s, 1, Min(Len(s), length))))

\* simulator.py:107-111
encode_string(s, length) ==
    LET b == utf8_encode(SubSeq(s, 1, Min(Len(s), length)))
    IN  to_registers(b \o [i \in 1..Max(0, length - Len(b)) |-> 0])

\* simulator.py:113-115; value is the rational n / d
encode_float(n, d) == to_registers(ieee_pack(n, d, 8, 23))

\* simulator.py:117-119
encode_double(n, d) == to_registers(ieee_pack(n, d, 11, 52))

\* simulator.py:121-123
encode_uint16(value) == <<value % 65536>>

\* simulator.py:125-127
encode_int16(value) == <<value % 65536>>

\* simulator.py:129-131
encode_uint32(value) == to_registers(BytesBE(value, 4))

\* simulator.py:133-135
encode_uint64(value) == to_registers(BytesBE(value, 8))

\* reg without the offset: the block index taken to be the client address
reg_unshifted(register) == register

\* simulator.py:140-142
reg(register) == register + 1

\* ------------------------------------------ decoding (smoke_test_ha.py)
\* the Python slice seq[start : stop] of a sequence (indices from 0, clipped)
py_slice(seq, start, stop) == SubSeq(seq, start + 1, Min(stop, Len(seq)))

\* b''.join(r.to_bytes(2, 'big') for r in regs)
regs_to_bytes(regs) ==
    [i \in 1..(2 * Len(regs)) |->
        IF i % 2 = 1 THEN regs[(i + 1) \div 2] \div 256 ELSE regs[i \div 2] % 256]

IsCont(b) == 128 <= b /\ b <= 191

\* the length of the UTF-8 sequence a lead byte announces (0: not a lead byte)
utf8_len(b) ==
    IF b < 128 THEN 1
    ELSE IF 194 <= b /\ b <= 223 THEN 2
    ELSE IF 224 <= b /\ b <= 239 THEN 3
    ELSE IF 240 <= b /\ b <= 244 THEN 4
    ELSE 0

\* a well-formed UTF-8 sequence starts at position i of b
utf8_starts(b, i) ==
    LET n == utf8_len(b[i])
    IN  /\ n > 0
        /\ i + n - 1 <= Len(b)
        /\ \A j \in (i + 1)..(i + n - 1) : IsCont(b[j])
        /\ b[i] = 224 => b[i + 1] >= 160
        /\ b[i] = 237 => b[i + 1] <= 159
        /\ b[i] = 240 => b[i + 1] >= 144
        /\ b[i] = 244 => b[i + 1] <= 143

\* the code point of the well-formed sequence at position i of b
utf8_point(b, i) ==
    CASE utf8_len(b[i]) = 1 -> b[i]
      [] utf8_len(b[i]) = 2 -> (b[i] % 32) * 64 + (b[i + 1] % 64)
      [] utf8_len(b[i]) = 3 ->
            (b[i] % 16) * 4096 + (b[i + 1] % 64) * 64 + (b[i + 2] % 64)
      [] utf8_len(b[i]) = 4 ->
            (b[i] % 8) * 262144 + (b[i + 1] % 64) * 4096
                + (b[i + 2] % 64) * 64 + (b[i + 3] % 64)

\* the elements of s at the positions in P, in order
Pick(s, P) ==
    [k \in 1..Cardinality(P) |->
        s[CHOOSE i \in P : Cardinality({j \in P : j <= i}) = k]]

\* the positions of b covered by a well-formed sequence
utf8_covered(b) ==
    {j \in 1..Len(b) :
        \E i \in 1..j : utf8_starts(b, i) /\ j <= i + utf8_len(b[i]) - 1}

\* bytes.decode('utf-8', errors='ignore'): the well-formed sequences decoded,
\* every other byte dropped
utf8_decode_ignore(b) ==
    LET starts == {i \in 1..Len(b) : utf8_starts(b, i)}
    IN  Pick([i \in 1..Len(b) |-> IF i \in starts THEN utf8_point(b, i) ELSE 0],
             starts)

\* bytes.decode('utf-8'): UnicodeDecodeError unless every byte is covered
utf8_decode_strict(b) ==
    IF utf8_covered(b) = 1..Len(b)
    THEN [error |-> FALSE, value |-> utf8_decode_ignore(b)]
    ELSE [error |-> TRUE, value |-> <<>>]

\* str.strip('\x00')
strip_nul(s) ==
    LET keep == {i \in 1..Len(s) : s[i] # 0}
    IN  IF keep = {} THEN <<>>
        ELSE SubSeq(s, CHOOSE i \in keep : \A j \in keep : i <= j,
                       CHOOSE i \in keep : \A j \in keep : j <= i)

\* smoke_test_ha.py:29-33
decode_string(registers, offset, count) ==
    strip_nul(utf8_decode_ignore(regs_to_bytes(py_slice(registers, offset, offset + count))))

\* test_simulator.py:25-28: decode_string(registers, length)
decode_string_strict(registers, length) ==
    LET d == utf8_decode_strict(py_slice(regs_to_bytes(registers), 0, length))
    IN  [error |-> d.error, value |-> strip_nul(d.value)]

\* smoke_test_ha.py:47-49
decode_uint16(registers, offset) == registers[offset + 1]

\* decode_int16 without the sign: the register taken as it is
decode_int16_unsigned(registers, offset) == registers[offset + 1]

\* smoke_test_ha.py:51-54
decode_int16(registers, offset) ==
    LET val == registers[offset + 1]
    IN  IF val < 32768 THEN val ELSE val - 65536

\* smoke_test_ha.py:56-59: (regs[0] << 16) | regs[1], as a wide natural
decode_uint32(registers, offset) ==
    LET regs == py_slice(registers, offset, offset + 2)
    IN  <<0, regs[1] \div 256, (regs[1] % 256) * 65536 + regs[2]>>

\* struct.unpack('>Q', b): eight big-endian bytes as a wide natural
unpack_Q(b) ==
    <<b[1] * 256 + b[2],
      b[3] * 65536 + b[4] * 256 + b[5],
      b[6] * 65536 + b[7] * 256 + b[8]>>

\* smoke_test_ha.py:61-65
decode_uint64(registers, offset) ==
    unpack_Q(regs_to_bytes(py_slice(registers, offset, offset + 4)))

\* ------------------------------------------------------ decoded floats
\* A Python float that struct.unpack returns is kept exactly: the record
\* [kind |-> "num", neg, m, sh] stands for (-1)^neg * m * 2^(-sh) with m a
\* wide natural and sh >= 0; infinities, NaNs and magnitudes of 2^53 or more
\* are [kind |-> "special"].
float_special == [kind |-> "special", neg |-> FALSE, m |-> <<0, 0, 0>>, sh |-> 0]

\* struct.unpack('>f', b)[0] of four bytes
unpack_f(b) ==
    LET neg  == b[1] >= 128
        e    == (b[1] % 128) * 2 + (b[2] \div 128)
        frac == (b[2] % 128) * 65536 + b[3] * 256 + b[4]
    IN  IF e = 255 THEN float_special
        ELSE IF e = 0
        THEN [kind |-> "num", neg |-> neg, m |-> <<0, 0, frac>>, sh |-> 149]
        ELSE IF e <= 150
        THEN [kind |-> "num", neg |-> neg, m |-> <<0, 0, 8388608 + frac>>,
              sh |-> 150 - e]
        ELSE IF e <= 173
        THEN LET up == e - 150
                 mm == 8388608 + frac
             IN  [kind |-> "num", neg |-> neg,
                  m |-> <<0, mm \div Pow2(24 - up), (mm % Pow2(24 - up)) * Pow2(up)>>,
                  sh |-> 0]
        ELSE float_special

\* struct.unpack('>d', b)[0] of eight bytes
unpack_d(b) ==
    LET neg == b[1] >= 128
        e   == (b[1] % 128) * 16 + (b[2] \div 16)
        a2  == b[2] % 16
        a1  == b[3] * 65536 + b[4] * 256 + b[5]
        a0  == b[6] * 65536 + b[7] * 256 + b[8]
    IN  IF e = 2047 \/ e > 1075 THEN float_special
        ELSE IF e = 0
        THEN [kind |-> "num", neg |-> neg, m |-> <<a2, a1, a0>>, sh |-> 1074]
        ELSE [kind |-> "num", neg |-> neg, m |-> <<16 + a2, a1, a0>>,
              sh |-> 1075 - e]

\* smoke_test_ha.py:35-39
decode_float32(registers, offset) ==
    unpack_f(regs_to_bytes(py_slice(registers, offset, offset + 2)))

\* smoke_test_ha.py:41-45
decode_float64(registers, offset) ==
    unpack_d(regs_to_bytes(py_slice(registers, offset, offset + 4)))

\* round(x, 2) of a Python float: the multiple of 1/100 nearest to the exact
\* value of x, ties to the even multiple, as the rational <<k, 100>>; <<0, 0>>
\* stands for a result the model does not hold (|k| >= 2^30, or x special)
round2(x) ==
    IF x.kind # "num" THEN <<0, 0>>
    ELSE LET r0 == (x.m[3] * 100) % Limb
             c1 == x.m[2] * 100 + ((x.m[3] * 100) \div Limb)
             r1 == c1 % Limb
             r2 == x.m[1] * 100 + (c1 \div Limb)
             w  == x.sh \div 24
             t  == x.sh % 24
             d  == IF w = 0 THEN <<r2, r1, r0>>
                   ELSE IF w = 1 THEN <<0, r2, r1>>
                   ELSE IF w = 2 THEN <<0, 0, r2>> ELSE <<0, 0, 0>>
             dropped == IF w = 0 THEN <<>>
                        ELSE IF w = 1 THEN <<r0>>
                        ELSE IF w = 2 THEN <<r1, r0>> ELSE <<r2, r1, r0>>
             fits == d[1] = 0 /\ d[2] < Pow2(6 + t)
             q    == d[2] * Pow2(24 - t) + (d[3] \div Pow2(t))
             head == IF w >= 4 THEN 0
                     ELSE IF t >= 1 THEN d[3] % Pow2(t)
                     ELSE IF dropped = <<>> THEN 0 ELSE dropped[1]
             half == IF t >= 1 THEN Pow2(t - 1) ELSE 8388608
             rest == IF t >= 1 THEN dropped
                     ELSE IF dropped = <<>> THEN <<>> ELSE Tail(dropped)
             restZero == \A i \in 1..Len(rest) : rest[i] = 0
             exact == x.sh = 0
             up   == /\ ~exact /\ w < 4
                     /\ \/ head > half
                        \/ head = half /\ (~restZero \/ q % 2 = 1)
             k    == IF up THEN q + 1 ELSE q
         IN  IF ~fits THEN <<0, 0>>
             ELSE <<IF x.neg THEN -k ELSE k, 100>>

\* the rationals a and b are the same number
RatEq(a, b) ==
    /\ a[2] > 0 /\ b[2] > 0
    /\ IF a[2] = b[2] THEN a[1] = b[1] ELSE a[1] * b[2] = b[1] * a[2]

\* ------------------------------------------------------------ constants
\* simulator.py:31-33
ADDRESS_PRODUCT == 200
ADDRESS_SOCKET_1 == 1
ADDRESS_SOCKET_2 == 2

\* simulator.py:150, 186: ModbusSequentialDataBlock(0, [0]*2000)
BlockSize == 2000

\* simulator.py:291, 294: the control field and the status field of the mirror
REG_SLAVE_MAX_CURRENT == 1210
REG_ACTUAL_APPLIED == 1206

Units == {ADDRESS_PRODUCT, ADDRESS_SOCKET_1, ADDRESS_SOCKET_2}
SocketUnits == <<ADDRESS_SOCKET_1, ADDRESS_SOCKET_2>>

\* -------------------------------------- ModbusSequentialDataBlock(0, ...)
\* block.values is the Python list [0]*2000: the cell at block index k is the
\* (k + 1)-th element of the sequence.
EmptyBlock == [i \in 1..BlockSize |-> 0]

block_cell(blk, k) == blk[k + 1]

\* block.getValues(address, count): the slice values[address : address+count]
block_getValues(blk, address, count) ==
    SubSeq(blk, address + 1, Min(address + count, Len(blk)))

\* block.setValues(address, values): values[address : address+len] = values
block_setValues(blk, address, values) ==
    SubSeq(blk, 1, address) \o values
        \o SubSeq(blk, address + Len(values) + 1, Len(blk))

\* ------------------------------------------------- register maps (setup)
\* datetime.datetime.now() at simulator.py:162
Nows == { [year |-> 2026, month |-> 11, day |-> 4, hour |-> 1, minute |-> 23, second |-> 59],
          [year |-> 2027, month |-> 1, day |-> 31, hour |-> 23, minute |-> 0, second |-> 7] }

\* the block.setValues(reg(register), encode_...(...)) calls of
\* setup_product_context, in order
product_calls(now) == <<
  [register |-> 100, type |-> "STRING", n |-> 34, values |-> encode_string(<<65, 108, 102, 101, 110, 32, 69, 118, 101, 32, 83, 105, 110, 103, 108, 101, 32, 80, 114, 111, 45, 108, 105, 110, 101>>, 34)],  \* L153 "Alfen Eve Single Pro-line"
  [register |-> 117, type |-> "STRING", n |-> 10, values |-> encode_string(<<65, 108, 102, 101, 110, 32, 66, 46, 86, 46>>, 10)],  \* L154 "Alfen B.V."
  [register |-> 122, type |-> "UINT16", n |-> 0, values |-> encode_uint16(3)],  \* L155
  [register |-> 123, type |-> "STRING", n |-> 34, values |-> encode_string(<<53, 46, 49, 54, 46, 48, 45, 52, 48, 57, 53>>, 34)],  \* L156 "5.16.0-4095"
  [register |-> 140, type |-> "STRING", n |-> 34, values |-> encode_string(<<78, 71, 57, 50, 48, 45, 54, 48, 53, 53, 57>>, 34)],  \* L157 "NG920-60559"
  [register |-> 157, type |-> "STRING", n |-> 22, values |-> encode_string(<<65, 67, 69, 48, 49, 48, 56, 55, 53, 50>>, 22)],  \* L158 "ACE0108752"
  [register |-> 168, type |-> "INT16", n |-> 0, values |-> encode_int16(now.year)],  \* L163
  [register |-> 169, type |-> "INT16", n |-> 0, values |-> encode_int16(now.month)],  \* L164
  [register |-> 170, type |-> "INT16", n |-> 0, values |-> encode_int16(now.day)],  \* L165
  [register |-> 171, type |-> "INT16", n |-> 0, values |-> encode_int16(now.hour)],  \* L166
  [register |-> 172, type |-> "INT16", n |-> 0, values |-> encode_int16(now.minute)],  \* L167
  [register |-> 173, type |-> "INT16", n |-> 0, values |-> encode_int16(now.second)],  \* L168
  [register |-> 174, type |-> "UINT64", n |-> 0, values |-> encode_uint64(Wide(3600000))],  \* L169
  [register |-> 178, type |-> "INT16", n |-> 0, values |-> encode_int16(60)],  \* L170
  [register |-> 1100, type |-> "FLOAT32", n |-> 0, values |-> encode_float(32, 1)],  \* L173 32.0
  [register |-> 1102, type |-> "FLOAT32", n |-> 0, values |-> encode_float(85, 2)],  \* L174 42.5
  [register |-> 1104, type |-> "UINT16", n |-> 0, values |-> encode_uint16(1)],  \* L175
  [register |-> 1105, type |-> "UINT16", n |-> 0, values |-> encode_uint16(1)]  \* L176
>>

\* the block.setValues(reg(register), encode_...(...)) calls of
\* setup_socket_context, in order
socket_calls == <<
  [register |-> 300, type |-> "UINT16", n |-> 0, values |-> encode_uint16(3)],  \* L190
  [register |-> 301, type |-> "UINT32", n |-> 0, values |-> encode_uint32(Wide(1500))],  \* L191
  [register |-> 305, type |-> "UINT16", n |-> 0, values |-> encode_uint16(1)],  \* L192
  [register |-> 306, type |-> "FLOAT32", n |-> 0, values |-> encode_float(465, 2)],  \* L195 232.5
  [register |-> 308, type |-> "FLOAT32", n |-> 0, values |-> encode_float(1159, 5)],  \* L196 231.8
  [register |-> 310, type |-> "FLOAT32", n |-> 0, values |-> encode_float(1166, 5)],  \* L197 233.2
  [register |-> 312, type |-> "FLOAT32", n |-> 0, values |-> encode_float(2006, 5)],  \* L200 401.2
  [register |-> 314, type |-> "FLOAT32", n |-> 0, values |-> encode_float(2004, 5)],  \* L201 400.8
  [register |-> 316, type |-> "FLOAT32", n |-> 0, values |-> encode_float(4021, 10)],  \* L202 402.1
  [register |-> 318, type |-> "FLOAT32", n |-> 0, values |-> encode_float(3, 25)],  \* L205 0.12
  [register |-> 320, type |-> "FLOAT32", n |-> 0, values |-> encode_float(51, 5)],  \* L206 10.2
  [register |-> 322, type |-> "FLOAT32", n |-> 0, values |-> encode_float(101, 10)],  \* L207 10.1
  [register |-> 324, type |-> "FLOAT32", n |-> 0, values |-> encode_float(103, 10)],  \* L208 10.3
  [register |-> 326, type |-> "FLOAT32", n |-> 0, values |-> encode_float(153, 5)],  \* L209 30.6
  [register |-> 328, type |-> "FLOAT32", n |-> 0, values |-> encode_float(49, 50)],  \* L212 0.98
  [register |-> 330, type |-> "FLOAT32", n |-> 0, values |-> encode_float(97, 100)],  \* L213 0.97
  [register |-> 332, type |-> "FLOAT32", n |-> 0, values |-> encode_float(49, 50)],  \* L214 0.98
  [register |-> 334, type |-> "FLOAT32", n |-> 0, values |-> encode_float(49, 50)],  \* L215 0.98
  [register |-> 336, type |-> "FLOAT32", n |-> 0, values |-> encode_float(2501, 50)],  \* L218 50.02
  [register |-> 338, type |-> "FLOAT32", n |-> 0, values |-> encode_float(2325, 1)],  \* L221 2325.0
  [register |-> 340, type |-> "FLOAT32", n |-> 0, values |-> encode_float(2298, 1)],  \* L222 2298.0
  [register |-> 342, type |-> "FLOAT32", n |-> 0, values |-> encode_float(2356, 1)],  \* L223 2356.0
  [register |-> 344, type |-> "FLOAT32", n |-> 0, values |-> encode_float(6979, 1)],  \* L224 6979.0
  [register |-> 346, type |-> "FLOAT32", n |-> 0, values |-> encode_float(2372, 1)],  \* L227 2372.0
  [register |-> 348, type |-> "FLOAT32", n |-> 0, values |-> encode_float(2348, 1)],  \* L228 2348.0
  [register |-> 350, type |-> "FLOAT32", n |-> 0, values |-> encode_float(2404, 1)],  \* L229 2404.0
  [register |-> 352, type |-> "FLOAT32", n |-> 0, values |-> encode_float(7124, 1)],  \* L230 7124.0
  [register |-> 354, type |-> "FLOAT32", n |-> 0, values |-> encode_float(465, 1)],  \* L233 465.0
  [register |-> 356, type |-> "FLOAT32", n |-> 0, values |-> encode_float(502, 1)],  \* L234 502.0
  [register |-> 358, type |-> "FLOAT32", n |-> 0, values |-> encode_float(454, 1)],  \* L235 454.0
  [register |-> 360, type |-> "FLOAT32", n |-> 0, values |-> encode_float(1421, 1)],  \* L236 1421.0
  [register |-> 362, type |-> "FLOAT64", n |-> 0, values |-> encode_double(1523467, 100)],  \* L239 15234.67
  [register |-> 366, type |-> "FLOAT64", n |-> 0, values |-> encode_double(759921, 50)],  \* L240 15198.42
  [register |-> 370, type |-> "FLOAT64", n |-> 0, values |-> encode_double(1531289, 100)],  \* L241 15312.89
  [register |-> 374, type |-> "FLOAT64", n |-> 0, values |-> encode_double(2287299, 50)],  \* L242 45745.98
  [register |-> 378, type |-> "FLOAT64", n |-> 0, values |-> encode_double(0, 1)],  \* L245 0.0
  [register |-> 382, type |-> "FLOAT64", n |-> 0, values |-> encode_double(0, 1)],  \* L246 0.0
  [register |-> 386, type |-> "FLOAT64", n |-> 0, values |-> encode_double(0, 1)],  \* L247 0.0
  [register |-> 390, type |-> "FLOAT64", n |-> 0, values |-> encode_double(0, 1)],  \* L248 0.0
  [register |-> 392, type |-> "FLOAT64", n |-> 0, values |-> encode_double(15542, 1)],  \* L251 15542.0
  [register |-> 396, type |-> "FLOAT64", n |-> 0, values |-> encode_double(15485, 1)],  \* L252 15485.0
  [register |-> 400, type |-> "FLOAT64", n |-> 0, values |-> encode_double(15612, 1)],  \* L253 15612.0
  [register |-> 404, type |-> "FLOAT64", n |-> 0, values |-> encode_double(46639, 1)],  \* L254 46639.0
  [register |-> 408, type |-> "FLOAT64", n |-> 0, values |-> encode_double(3024, 1)],  \* L257 3024.0
  [register |-> 412, type |-> "FLOAT64", n |-> 0, values |-> encode_double(3189, 1)],  \* L258 3189.0
  [register |-> 416, type |-> "FLOAT64", n |-> 0, values |-> encode_double(2956, 1)],  \* L259 2956.0
  [register |-> 1200, type |-> "UINT16", n |-> 0, values |-> encode_uint16(1)],  \* L263
  [register |-> 1201, type |-> "STRING", n |-> 10, values |-> encode_string(<<67, 50>>, 10)],  \* L264 "C2"
  [register |-> 1206, type |-> "FLOAT32", n |-> 0, values |-> encode_float(16, 1)],  \* L265 16.0
  [register |-> 1208, type |-> "UINT32", n |-> 0, values |-> encode_uint32(Wide(60))],  \* L266
  [register |-> 1210, type |-> "FLOAT32", n |-> 0, values |-> encode_float(16, 1)],  \* L267 16.0
  [register |-> 1212, type |-> "FLOAT32", n |-> 0, values |-> encode_float(6, 1)],  \* L268 6.0
  [register |-> 1214, type |-> "UINT16", n |-> 0, values |-> encode_uint16(1)],  \* L269
  [register |-> 1215, type |-> "UINT16", n |-> 0, values |-> encode_uint16(3)]  \* L270
>>

\* one call: block.setValues(reg(register), values)
apply_call(blk, call) == block_setValues(blk, reg(call.register), call.values)

\* the calls numbered lo..hi applied to blk, in order: the first half of
\* them, then (the block they leave being computed) the second half
RECURSIVE apply_calls(_, _, _, _)
apply_calls(blk, calls, lo, hi) ==
    IF lo > hi THEN blk
    ELSE IF lo = hi THEN apply_call(blk, calls[lo])
    ELSE LET mid  == (lo + hi) \div 2
             left == apply_calls(blk, calls, lo, mid)
         IN  IF Len(left) = Len(blk)
             THEN apply_calls(left, calls, mid + 1, hi)
             ELSE left

\* simulator.py:148-178
setup_product_context(now) ==
    apply_calls(EmptyBlock, product_calls(now), 1, Len(product_calls(now)))

\* simulator.py:184-272 (socket_id is not used by the body)
setup_socket_context(socket_id) ==
    apply_calls(EmptyBlock, socket_calls, 1, Len(socket_calls))

\* register count of a declared type (n: the byte length of a STRING)
TypeWidth(type, n) ==
    CASE type = "STRING" -> (n + 1) \div 2
      [] type \in {"UINT16", "INT16"} -> 1
      [] type \in {"UINT32", "FLOAT32"} -> 2
      [] type \in {"UINT64", "FLOAT64"} -> 4

\* ----------------------------------------------------------------- state
VARIABLES
    store,      \* ModbusServerContext: unit id -> block.values of its hr block
    hubData,    \* hub.data: key -> value, Absent for a key not in the dict
    nativeMax,  \* socket -> AlfenNumber._attr_native_max_value
    waiting,    \* unit -> calls of hub.write_registers not yet on the wire
    inflight,   \* unit -> calls of hub.write_registers on the wire, unresolved
    log,        \* the clamp warnings _LOGGER.warning recorded, in order
    ncalls,     \* number of entity calls made so far
    codec,      \* the latest call of an encoder and what decoding it gives
    flow,       \* config entries and the config flows in progress
    resp,       \* the response to the latest request of the recording client
    smoke,      \* what the latest function of the smoke test decoded
    hass,       \* the hub's registered callbacks and the states entities wrote
    simTask,    \* the task running update_simulation: "running" or "dead"
    acked       \* unit -> the values of the writes the transport delivered

simVars == <<store>>
numVars == <<hubData, nativeMax, waiting, inflight, log, ncalls, acked>>
auxVars == <<codec, flow, resp, smoke, hass>>
vars == <<store, hubData, nativeMax, waiting, inflight, log, ncalls, codec, flow,
          resp, smoke, hass, simTask, acked>>

\* ------------------------------------------ ModbusDeviceContext (hr only)
\* The context adds 1 to the address before it reaches the block
\* (simulator.py:13-16, 138-139, 290); an access outside the block is refused.
ctx_inRange(blk, address, count) ==
    address + 1 >= 0 /\ address + 1 + count <= Len(blk)

\* slave.getValues(3, address, count)
ctx_getValues(blk, address, count) ==
    IF ctx_inRange(blk, address, count)
    THEN [isList |-> TRUE, values |-> block_getValues(blk, address + 1, count)]
    ELSE [isList |-> FALSE, values |-> <<>>]

\* slave.setValues(3, address, values)
ctx_setValues(blk, address, values) ==
    IF ctx_inRange(blk, address, Len(values))
    THEN block_setValues(blk, address + 1, values)
    ELSE blk

\* ------------------------------------------------------ simulation logic
\* the loop body with control and status field exchanged
mirror_unit_reversed(st, unit) ==
    IF unit \notin DOMAIN st THEN st
    ELSE LET values == ctx_getValues(st[unit], REG_ACTUAL_APPLIED, 2)
         IN  IF values.isList /\ Len(values.values) = 2
             THEN [st EXCEPT ![unit] = ctx_setValues(@, REG_SLAVE_MAX_CURRENT, values.values)]
             ELSE st

\* the loop body copying the first register of the field only
mirror_unit_torn(st, unit) ==
    IF unit \notin DOMAIN st THEN st
    ELSE LET values == ctx_getValues(st[unit], REG_SLAVE_MAX_CURRENT, 1)
         IN  IF values.isList /\ Len(values.values) = 1
             THEN [st EXCEPT ![unit] = ctx_setValues(@, REG_ACTUAL_APPLIED, values.values)]
             ELSE st

\* the loop body taking the command out of the control field once applied
mirror_unit_consuming(st, unit) ==
    IF unit \notin DOMAIN st THEN st
    ELSE LET values == ctx_getValues(st[unit], REG_SLAVE_MAX_CURRENT, 2)
         IN  IF values.isList /\ Len(values.values) = 2
             THEN [st EXCEPT ![unit] =
                      ctx_setValues(ctx_setValues(@, REG_ACTUAL_APPLIED, values.values),
                                    REG_SLAVE_MAX_CURRENT, <<0, 0>>)]
             ELSE st

\* the loop body copying three registers
mirror_unit_wide(st, unit) ==
    IF unit \notin DOMAIN st THEN st
    ELSE LET values == ctx_getValues(st[unit], REG_SLAVE_MAX_CURRENT, 3)
         IN  IF values.isList /\ Len(values.values) = 3
             THEN [st EXCEPT ![unit] = ctx_setValues(@, REG_ACTUAL_APPLIED, values.values)]
             ELSE st

\* simulator.py:287-296: one pass of the loop body for one unit
mirror_unit(st, unit) ==
    IF unit \notin DOMAIN st THEN st
    ELSE LET values == ctx_getValues(st[unit], REG_SLAVE_MAX_CURRENT, 2)
         IN  IF values.isList /\ Len(values.values) = 2
             THEN [st EXCEPT ![unit] = ctx_setValues(@, REG_ACTUAL_APPLIED, values.values)]
             ELSE st

\* simulator.py:287-294: the body of the try for one unit, with the exception
\* it raises: context[unit] raises for a unit the context does not hold
try_body(st, unit) ==
    IF unit \notin DOMAIN st THEN [st |-> st, exc |-> "NoSuchIdException"]
    ELSE [st |-> mirror_unit(st, unit), exc |-> "none"]

\* a handler that lets the exception go on
except_nothing(exc) == exc

\* simulator.py:295-296: except Exception: pass
except_Exception(exc) == "none"

\* simulator.py:286-296: the for loop from the first of units on; an
\* exception that leaves a loop body ends the pass
RECURSIVE update_pass(_, _)
update_pass(st, units) ==
    IF units = <<>> THEN [st |-> st, exc |-> "none"]
    ELSE LET t == try_body(st, Head(units))
             e == except_Exception(t.exc)
         IN  IF e # "none" THEN [st |-> t.st, exc |-> e]
             ELSE update_pass(t.st, Tail(units))

\* simulator.py:286: for unit in [ADDRESS_SOCKET_1, ADDRESS_SOCKET_2]
mirror_units(st, units) == update_pass(st, units).st

\* simulator.py:278-296: one tick of update_simulation (the code between two
\* awaits of asyncio.sleep(1) runs without yielding to the server task); an
\* exception that leaves the while loop ends the task
Tick ==
    /\ simTask = "running"
    /\ store' = mirror_units(store, SocketUnits)
    /\ simTask' = IF update_pass(store, SocketUnits).exc = "none"
                  THEN "running" ELSE "dead"
    /\ UNCHANGED <<numVars, auxVars>>

\* ------------------------------------------------- client requests
\* a server that answers for a unit it has no context for from socket 1
server_read_fallback(st, unit, address, count) ==
    LET r == ctx_getValues(st[IF unit \in DOMAIN st THEN unit ELSE ADDRESS_SOCKET_1],
                           address, count)
    IN  [isError |-> ~r.isList, registers |-> r.values]

\* simulator.py:326-330: the server answers a read_holding_registers request
server_read(st, unit, address, count) ==
    IF unit \notin DOMAIN st THEN [isError |-> TRUE, registers |-> <<>>]
    ELSE LET r == ctx_getValues(st[unit], address, count)
         IN  [isError |-> ~r.isList, registers |-> r.values]

\* a server with one store for all units (single=True): the write lands in
\* every unit's registers
server_write_shared(st, unit, address, values) ==
    IF unit \notin DOMAIN st THEN st
    ELSE [u \in DOMAIN st |-> ctx_setValues(st[u], address, values)]

\* simulator.py:326-330: the server applies a write_registers request
server_write(st, unit, address, values) ==
    IF unit \notin DOMAIN st THEN st
    ELSE [st EXCEPT ![unit] = ctx_setValues(@, address, values)]

server_write_isError(st, unit, address, values) ==
    \/ unit \notin DOMAIN st
    \/ ~ctx_inRange(st[unit], address, Len(values))

\* what the clients write: FLOAT32 14.5 (smoke_test_ha.py:310), 12.5
\* (test_simulator.py:151) and 10.1 as register pairs, and a single register
ClientFloats == {encode_float(29, 2), encode_float(25, 2), encode_float(101, 10)}
ClientPayloads == {encode_float(29, 2), <<4660>>}
WriteAddrs == {REG_ACTUAL_APPLIED, REG_SLAVE_MAX_CURRENT}
ReadAddrs == {100, 306, 1100, REG_ACTUAL_APPLIED, REG_SLAVE_MAX_CURRENT}
ReadCounts == {1, 2, 17}

\* smoke_test_ha.py:318: client.write_registers(address, payload, device_id=unit)
ClientWrite(unit, address, values) ==
    /\ store' = server_write(store, unit, address, values)
    /\ UNCHANGED <<numVars, auxVars, simTask>>

\* smoke_test_ha.py:330: client.read_holding_registers(address, count=count,
\* device_id=unit); a read changes nothing in the server
ClientRead(unit, address, count) ==
    /\ server_read(store, unit, address, count).isError \in BOOLEAN
    /\ UNCHANGED vars

\* ================================================= number.py (AlfenNumber)
\* A float is a rational <<n, d>>, d > 0.
RLe(a, b) == a[1] * b[2] <= b[1] * a[2]
RGt(a, b) == ~RLe(a, b)
RMin(a, b) == IF RLe(a, b) THEN a ELSE b

\* entity calls (set value, refresh) explored per run
MaxCalls == 2

\* a key that is not in hub.data
Absent == <<>>

\* number.py:45-58: one entity for socket 1 and, with has_socket_2, for socket 2
Sockets == {ADDRESS_SOCKET_1, ADDRESS_SOCKET_2}

\* number.py:82: self._key = key + str(socket)
entity_key(socket) == <<"key", socket>>
\* number.py:131
ACTUAL_MAX_CURRENT == <<"actualMaxCurrent", 0>>
\* number.py:133: "MAX_CURRENT_S" + str(self._socket)
max_current_key(socket) == <<"MAX_CURRENT_S", socket>>

Keys == {entity_key(s) : s \in Sockets} \cup {ACTUAL_MAX_CURRENT}
            \cup {max_current_key(s) : s \in Sockets}

\* CONTROL_SLAVE_MAX_CURRENT of const.py: fmt and attrs of the number
Fmt == "f"
AttrMin == <<0, 1>>
AttrMax == <<32, 1>>

\* values a user asks for: 40.0 (above every limit), 20.0, -5.0
ReqValues == {<<40, 1>>, <<20, 1>>, <<-5, 1>>}

\* int(value): truncation towards zero
py_int(value) ==
    IF value[1] >= 0 THEN value[1] \div value[2] ELSE -((-value[1]) \div value[2])

\* number.py:139-142: client.convert_to_registers(..., word_order="big")
convert_to_registers(value, fmt) ==
    IF fmt = "u" THEN <<py_int(value)>>
    ELSE to_registers(ieee_pack(value[1], value[2], 8, 23))

\* async_set_native_value without its clamp
set_clamp_off(data, value) == [value |-> value, warning |-> <<>>]

\* number.py:150-154: the clamp of async_set_native_value
set_clamp(data, value) ==
    IF data[ACTUAL_MAX_CURRENT] # Absent /\ RGt(value, data[ACTUAL_MAX_CURRENT])
    THEN [value |-> data[ACTUAL_MAX_CURRENT],
          warning |-> << <<value, data[ACTUAL_MAX_CURRENT]>> >>]
    ELSE [value |-> value, warning |-> <<>>]

\* number.py:131-135: the slider maximum update_value leaves behind
\* the two limits looked up in the other order
update_max_socket_first(data, socket, old) ==
    IF data[max_current_key(socket)] # Absent THEN data[max_current_key(socket)]
    ELSE IF data[ACTUAL_MAX_CURRENT] # Absent THEN data[ACTUAL_MAX_CURRENT]
    ELSE old

\* number.py:130-135: the native maximum update_value leaves
update_max(data, socket, old) ==
    IF data[ACTUAL_MAX_CURRENT] # Absent THEN data[ACTUAL_MAX_CURRENT]
    ELSE IF data[max_current_key(socket)] # Absent THEN data[max_current_key(socket)]
    ELSE old

\* number.py:124-144: update_value up to its await: the call it makes to
\* hub.write_registers (none when the key is not in hub.data).  The call is
\* recorded with who made it, its number, the value it encodes and the hard
\* limit hub.data held when it was made.
\* update_value without the early return of number.py:125-127
update_value_unguarded(data, socket, caller, seq) ==
    << [caller |-> caller, seq |-> seq, unit |-> socket,
        address |-> REG_SLAVE_MAX_CURRENT,
        value |-> data[entity_key(socket)],
        limit |-> data[ACTUAL_MAX_CURRENT],
        payload |-> IF data[entity_key(socket)] = Absent THEN <<>>
                    ELSE convert_to_registers(data[entity_key(socket)], Fmt)] >>

update_value(data, socket, caller, seq) ==
    IF data[entity_key(socket)] = Absent THEN <<>>
    ELSE << [caller |-> caller, seq |-> seq, unit |-> socket,
             address |-> REG_SLAVE_MAX_CURRENT,
             value |-> data[entity_key(socket)],
             limit |-> data[ACTUAL_MAX_CURRENT],
             payload |-> convert_to_registers(data[entity_key(socket)], Fmt)] >>

\* number.py:119-122
native_value(data, socket) == data[entity_key(socket)]

\* number.py:147-157: async_set_native_value(value) up to the await inside
\* update_value
async_set_native_value(socket, value) ==
    LET c == set_clamp(hubData, value)
        data == [hubData EXCEPT ![entity_key(socket)] = c.value]
    IN  /\ ncalls < MaxCalls
        /\ ncalls' = ncalls + 1
        /\ log' = log \o c.warning
        /\ hubData' = data
        /\ nativeMax' = [nativeMax EXCEPT ![socket] = update_max(data, socket, @)]
        /\ waiting' = [waiting EXCEPT ![socket] =
                          @ \o update_value(data, socket, "set", ncalls + 1)]
        /\ UNCHANGED <<inflight, acked, store, simTask, auxVars>>

\* number.py:96: the hub calls update_value, the refresh callback
refresh_callback(socket) ==
    /\ ncalls < MaxCalls
    /\ ncalls' = ncalls + 1
    /\ nativeMax' = [nativeMax EXCEPT ![socket] =
                        IF hubData[entity_key(socket)] = Absent THEN @
                        ELSE update_max(hubData, socket, @)]
    /\ waiting' = [waiting EXCEPT ![socket] =
                      @ \o update_value(hubData, socket, "refresh", ncalls + 1)]
    /\ UNCHANGED <<hubData, inflight, log, acked, store, simTask, auxVars>>

\* ------------------------------------------------ the hub (spec sections
\* 3, 4.4 and 5: PendingWrite, poll cycle)
\* a hub that puts every call on the wire at once
hub_write_unlocked(unit) == TRUE

\* the device's write slot is free: no write of the unit is on the wire
hub_write_free(unit) == inflight[unit] = <<>>

\* the waiting call the hub puts on the wire next
hub_next_write(unit) == 1

\* hub.write_registers: the oldest waiting call of a unit goes on the wire
\* once the unit has no write in flight
hub_submit(unit) ==
    /\ waiting[unit] # <<>>
    /\ hub_write_free(unit)
    /\ LET k == hub_next_write(unit)
       IN  /\ inflight' = [inflight EXCEPT ![unit] = Append(@, waiting[unit][k])]
           /\ waiting' = [waiting EXCEPT ![unit] =
                             SubSeq(@, 1, k - 1) \o SubSeq(@, k + 1, Len(@))]
    /\ UNCHANGED <<hubData, nativeMax, log, ncalls, acked, store, simTask, auxVars>>

\* the transport answers a write on the wire: the value was delivered; the
\* awaiting call resumes (number.py:144, then number.py:158)
hub_resolve(unit) ==
    /\ inflight[unit] # <<>>
    /\ inflight' = [inflight EXCEPT ![unit] = Tail(@)]
    /\ acked' = [acked EXCEPT ![unit] = @ \cup {Head(inflight[unit]).value}]
    /\ UNCHANGED <<hubData, nativeMax, waiting, log, ncalls, store, simTask, auxVars>>

\* the transport fails a write on the wire: hub.write_registers raises in
\* the awaiting call; number.py:144 and number.py:157 have no handler, so
\* the exception leaves update_value and async_set_native_value and nothing
\* is assigned after the await
hub_fail(unit) ==
    /\ inflight[unit] # <<>>
    /\ inflight' = [inflight EXCEPT ![unit] = Tail(@)]
    /\ UNCHANGED <<hubData, nativeMax, waiting, log, ncalls, acked, store, simTask, auxVars>>

\* a snapshot: station limit, per-socket limit, commanded current of the sockets
snapshot(limit, socketLimit, current) ==
    [k \in Keys |->
        IF k = ACTUAL_MAX_CURRENT THEN limit
        ELSE IF k \in {max_current_key(s) : s \in Sockets} THEN socketLimit
        ELSE current]

\* snapshots a poll cycle can publish
PollSnapshots ==
    { snapshot(<<32, 1>>, Absent, <<16, 1>>),
      snapshot(<<16, 1>>, Absent, <<20, 1>>),
      snapshot(Absent, <<25, 1>>, <<16, 1>>),
      snapshot(<<20, 1>>, <<25, 1>>, <<16, 1>>),
      snapshot(<<16, 1>>, Absent, Absent) }

\* a successful poll cycle publishes a whole snapshot
poll_publish(snap) ==
    /\ hubData' = snap
    /\ UNCHANGED <<nativeMax, waiting, inflight, log, ncalls, acked, store, simTask, auxVars>>

\* ======================================== codecs applied to chosen inputs
\* longest string tried (in characters) and largest declared byte length
MaxStrLen == 3
MaxFieldBytes == 6

\* "Alfen Eve Single Pro-line" (simulator.py:153) and its declared length
ProductName ==
    <<65, 108, 102, 101, 110, 32, 69, 118, 101, 32, 83, 105, 110, 103, 108,
      101, 32, 80, 114, 111, 45, 108, 105, 110, 101>>
ProductNameBytes == 34

\* characters tried: "A", NUL, e-acute (2 bytes), the euro sign (3 bytes) and
\* U+1F600 (4 bytes)
CodecChars == {65, 0, 233, 8364, 128512}

CodecStrings ==
    UNION {[1..m -> CodecChars] : m \in 0..MaxStrLen} \cup {ProductName}

CodecLengths == (0..MaxFieldBytes) \cup {ProductNameBytes}

\* integers tried by the 16-bit codecs, in and out of range
Int16Inputs ==
    {0, 1, 255, 256, 4660, 32767, 32768, 65535, 65536, 70000,
     -1, -5, -256, -32768, -32769, -65537}

\* naturals below 2^32 and below 2^64 tried by the 32- and 64-bit codecs
Wide32Inputs ==
    {Wide(0), Wide(1), Wide(60), Wide(1500), Wide(65535), Wide(65536),
     Wide(305419896), <<0, 128, 0>>, <<0, 255, 16777215>>}
Wide64Inputs ==
    Wide32Inputs \cup {Wide(3600000), <<0, 256, 0>>, <<1, 0, 0>>, <<4660, 5666970, 12377840>>,
                       <<32768, 0, 0>>, <<65535, 16777215, 16777215>>}

\* no encoder called
CodecIdle == [op |-> "none", arg |-> <<>>, n |-> 0, done |-> TRUE,
              out |-> <<>>, back |-> <<>>, strict |-> <<>>]

\* a call about to be made: the encoder of a type, its argument and (for a
\* string) the declared byte length
codec_call(op, arg, n) ==
    [op |-> op, arg |-> arg, n |-> n, done |-> FALSE,
     out |-> <<>>, back |-> <<>>, strict |-> <<>>]

CodecCalls ==
    {codec_call("STRING", s, n) : s \in CodecStrings, n \in CodecLengths}
        \cup {codec_call("UINT16", v, 0) : v \in Int16Inputs}
        \cup {codec_call("INT16", v, 0) : v \in Int16Inputs}
        \cup {codec_call("UINT32", v, 0) : v \in Wide32Inputs}
        \cup {codec_call("UINT64", v, 0) : v \in Wide64Inputs}

\* encode_string(s, n), then both decoders on the field's registers
codec_string ==
    /\ codec.op = "STRING" /\ ~codec.done
    /\ codec' = [codec EXCEPT
                    !.done = TRUE,
                    !.out = encode_string(codec.arg, codec.n),
                    !.back = decode_string(encode_string(codec.arg, codec.n), 0,
                                           TypeWidth("STRING", codec.n)),
                    !.strict = decode_string_strict(encode_string(codec.arg, codec.n),
                                                    codec.n)]
    /\ UNCHANGED <<store, numVars, flow, resp, smoke, hass, simTask>>

codec_uint16 ==
    /\ codec.op = "UINT16" /\ ~codec.done
    /\ codec' = [codec EXCEPT !.done = TRUE, !.out = encode_uint16(codec.arg),
                    !.back = decode_uint16(encode_uint16(codec.arg), 0)]
    /\ UNCHANGED <<store, numVars, flow, resp, smoke, hass, simTask>>

codec_int16 ==
    /\ codec.op = "INT16" /\ ~codec.done
    /\ codec' = [codec EXCEPT !.done = TRUE, !.out = encode_int16(codec.arg),
                    !.back = decode_int16(encode_int16(codec.arg), 0)]
    /\ UNCHANGED <<store, numVars, flow, resp, smoke, hass, simTask>>

codec_uint32 ==
    /\ codec.op = "UINT32" /\ ~codec.done
    /\ codec' = [codec EXCEPT !.done = TRUE, !.out = encode_uint32(codec.arg),
                    !.back = decode_uint32(encode_uint32(codec.arg), 0)]
    /\ UNCHANGED <<store, numVars, flow, resp, smoke, hass, simTask>>

codec_uint64 ==
    /\ codec.op = "UINT64" /\ ~codec.done
    /\ codec' = [codec EXCEPT !.done = TRUE, !.out = encode_uint64(codec.arg),
                    !.back = decode_uint64(encode_uint64(codec.arg), 0)]
    /\ UNCHANGED <<store, numVars, flow, resp, smoke, hass, simTask>>


\* ------------------------------------------- a client keeping responses
\* unit ids the server has no context for (simulator.py:307-311 registers
\* 200, 1 and 2 only, single=False)
UnknownUnits == {0, 3, 247}
RequestUnits == Units \cup UnknownUnits

\* what the recording client asks for: the control and the status field
RequestAddrs == {REG_ACTUAL_APPLIED, REG_SLAVE_MAX_CURRENT}
RequestPayloads == {encode_float(29, 2)}
RequestCounts == {1, 2}

NoResponse ==
    [fc |-> "none", unit |-> 0, address |-> 0, count |-> 0,
     isError |-> FALSE, registers |-> <<>>]

\* smoke_test_ha.py:330-331: rr = await client.read_holding_registers(...);
\* rr.isError(), rr.registers
request_read(unit, address, count) ==
    /\ resp' = [fc |-> "read", unit |-> unit, address |-> address, count |-> count,
                isError |-> server_read(store, unit, address, count).isError,
                registers |-> server_read(store, unit, address, count).registers]
    /\ UNCHANGED <<store, numVars, codec, flow, smoke, hass, simTask>>

\* smoke_test_ha.py:318-319: wr = await client.write_registers(...);
\* wr.isError()
request_write(unit, address, values) ==
    /\ store' = server_write(store, unit, address, values)
    /\ resp' = [fc |-> "write", unit |-> unit, address |-> address,
                count |-> Len(values),
                isError |-> server_write_isError(store, unit, address, values),
                registers |-> <<>>]
    /\ UNCHANGED <<numVars, codec, flow, smoke, hass, simTask>>

\* no function of the smoke test has run
SmokeIdle == [test |-> "none", unit |-> 0, isError |-> FALSE, fields |-> <<>>]

\* ------------------------------------- what setup gives to the encoders
\* the register, the encoder and its arguments of each call of
\* setup_product_context, in order (a float literal as a rational)
product_init(now) == <<
  [register |-> 100, type |-> "STRING", n |-> 34, value |-> <<65, 108, 102, 101, 110, 32, 69, 118, 101, 32, 83, 105, 110, 103, 108, 101, 32, 80, 114, 111, 45, 108, 105, 110, 101>>],  \* L153
  [register |-> 117, type |-> "STRING", n |-> 10, value |-> <<65, 108, 102, 101, 110, 32, 66, 46, 86, 46>>],  \* L154
  [register |-> 122, type |-> "UINT16", n |-> 0, value |-> 3],  \* L155
  [register |-> 123, type |-> "STRING", n |-> 34, value |-> <<53, 46, 49, 54, 46, 48, 45, 52, 48, 57, 53>>],  \* L156
  [register |-> 140, type |-> "STRING", n |-> 34, value |-> <<78, 71, 57, 50, 48, 45, 54, 48, 53, 53, 57>>],  \* L157
  [register |-> 157, type |-> "STRING", n |-> 22, value |-> <<65, 67, 69, 48, 49, 48, 56, 55, 53, 50>>],  \* L158
  [register |-> 168, type |-> "INT16", n |-> 0, value |-> now.year],  \* L163
  [register |-> 169, type |-> "INT16", n |-> 0, value |-> now.month],  \* L164
  [register |-> 170, type |-> "INT16", n |-> 0, value |-> now.day],  \* L165
  [register |-> 171, type |-> "INT16", n |-> 0, value |-> now.hour],  \* L166
  [register |-> 172, type |-> "INT16", n |-> 0, value |-> now.minute],  \* L167
  [register |-> 173, type |-> "INT16", n |-> 0, value |-> now.second],  \* L168
  [register |-> 174, type |-> "UINT64", n |-> 0, value |-> Wide(3600000)],  \* L169
  [register |-> 178, type |-> "INT16", n |-> 0, value |-> 60],  \* L170
  [register |-> 1100, type |-> "FLOAT32", n |-> 0, value |-> <<32, 1>>],  \* L173
  [register |-> 1102, type |-> "FLOAT32", n |-> 0, value |-> <<85, 2>>],  \* L174
  [register |-> 1104, type |-> "UINT16", n |-> 0, value |-> 1],  \* L175
  [register |-> 1105, type |-> "UINT16", n |-> 0, value |-> 1]  \* L176
>>

\* the same for setup_socket_context
socket_init == <<
  [register |-> 300, type |-> "UINT16", n |-> 0, value |-> 3],  \* L190
  [register |-> 301, type |-> "UINT32", n |-> 0, value |-> Wide(1500)],  \* L191
  [register |-> 305, type |-> "UINT16", n |-> 0, value |-> 1],  \* L192
  [register |-> 306, type |-> "FLOAT32", n |-> 0, value |-> <<465, 2>>],  \* L195
  [register |-> 308, type |-> "FLOAT32", n |-> 0, value |-> <<1159, 5>>],  \* L196
  [register |-> 310, type |-> "FLOAT32", n |-> 0, value |-> <<1166, 5>>],  \* L197
  [register |-> 312, type |-> "FLOAT32", n |-> 0, value |-> <<2006, 5>>],  \* L200
  [register |-> 314, type |-> "FLOAT32", n |-> 0, value |-> <<2004, 5>>],  \* L201
  [register |-> 316, type |-> "FLOAT32", n |-> 0, value |-> <<4021, 10>>],  \* L202
  [register |-> 318, type |-> "FLOAT32", n |-> 0, value |-> <<3, 25>>],  \* L205
  [register |-> 320, type |-> "FLOAT32", n |-> 0, value |-> <<51, 5>>],  \* L206
  [register |-> 322, type |-> "FLOAT32", n |-> 0, value |-> <<101, 10>>],  \* L207
  [register |-> 324, type |-> "FLOAT32", n |-> 0, value |-> <<103, 10>>],  \* L208
  [register |-> 326, type |-> "FLOAT32", n |-> 0, value |-> <<153, 5>>],  \* L209
  [register |-> 328, type |-> "FLOAT32", n |-> 0, value |-> <<49, 50>>],  \* L212
  [register |-> 330, type |-> "FLOAT32", n |-> 0, value |-> <<97, 100>>],  \* L213
  [register |-> 332, type |-> "FLOAT32", n |-> 0, value |-> <<49, 50>>],  \* L214
  [register |-> 334, type |-> "FLOAT32", n |-> 0, value |-> <<49, 50>>],  \* L215
  [register |-> 336, type |-> "FLOAT32", n |-> 0, value |-> <<2501, 50>>],  \* L218
  [register |-> 338, type |-> "FLOAT32", n |-> 0, value |-> <<2325, 1>>],  \* L221
  [register |-> 340, type |-> "FLOAT32", n |-> 0, value |-> <<2298, 1>>],  \* L222
  [register |-> 342, type |-> "FLOAT32", n |-> 0, value |-> <<2356, 1>>],  \* L223
  [register |-> 344, type |-> "FLOAT32", n |-> 0, value |-> <<6979, 1>>],  \* L224
  [register |-> 346, type |-> "FLOAT32", n |-> 0, value |-> <<2372, 1>>],  \* L227
  [register |-> 348, type |-> "FLOAT32", n |-> 0, value |-> <<2348, 1>>],  \* L228
  [register |-> 350, type |-> "FLOAT32", n |-> 0, value |-> <<2404, 1>>],  \* L229
  [register |-> 352, type |-> "FLOAT32", n |-> 0, value |-> <<7124, 1>>],  \* L230
  [register |-> 354, type |-> "FLOAT32", n |-> 0, value |-> <<465, 1>>],  \* L233
  [register |-> 356, type |-> "FLOAT32", n |-> 0, value |-> <<502, 1>>],  \* L234
  [register |-> 358, type |-> "FLOAT32", n |-> 0, value |-> <<454, 1>>],  \* L235
  [register |-> 360, type |-> "FLOAT32", n |-> 0, value |-> <<1421, 1>>],  \* L236
  [register |-> 362, type |-> "FLOAT64", n |-> 0, value |-> <<1523467, 100>>],  \* L239
  [register |-> 366, type |-> "FLOAT64", n |-> 0, value |-> <<759921, 50>>],  \* L240
  [register |-> 370, type |-> "FLOAT64", n |-> 0, value |-> <<1531289, 100>>],  \* L241
  [register |-> 374, type |-> "FLOAT64", n |-> 0, value |-> <<2287299, 50>>],  \* L242
  [register |-> 378, type |-> "FLOAT64", n |-> 0, value |-> <<0, 1>>],  \* L245
  [register |-> 382, type |-> "FLOAT64", n |-> 0, value |-> <<0, 1>>],  \* L246
  [register |-> 386, type |-> "FLOAT64", n |-> 0, value |-> <<0, 1>>],  \* L247
  [register |-> 390, type |-> "FLOAT64", n |-> 0, value |-> <<0, 1>>],  \* L248
  [register |-> 392, type |-> "FLOAT64", n |-> 0, value |-> <<15542, 1>>],  \* L251
  [register |-> 396, type |-> "FLOAT64", n |-> 0, value |-> <<15485, 1>>],  \* L252
  [register |-> 400, type |-> "FLOAT64", n |-> 0, value |-> <<15612, 1>>],  \* L253
  [register |-> 404, type |-> "FLOAT64", n |-> 0, value |-> <<46639, 1>>],  \* L254
  [register |-> 408, type |-> "FLOAT64", n |-> 0, value |-> <<3024, 1>>],  \* L257
  [register |-> 412, type |-> "FLOAT64", n |-> 0, value |-> <<3189, 1>>],  \* L258
  [register |-> 416, type |-> "FLOAT64", n |-> 0, value |-> <<2956, 1>>],  \* L259
  [register |-> 1200, type |-> "UINT16", n |-> 0, value |-> 1],  \* L263
  [register |-> 1201, type |-> "STRING", n |-> 10, value |-> <<67, 50>>],  \* L264
  [register |-> 1206, type |-> "FLOAT32", n |-> 0, value |-> <<16, 1>>],  \* L265
  [register |-> 1208, type |-> "UINT32", n |-> 0, value |-> Wide(60)],  \* L266
  [register |-> 1210, type |-> "FLOAT32", n |-> 0, value |-> <<16, 1>>],  \* L267
  [register |-> 1212, type |-> "FLOAT32", n |-> 0, value |-> <<6, 1>>],  \* L268
  [register |-> 1214, type |-> "UINT16", n |-> 0, value |-> 1],  \* L269
  [register |-> 1215, type |-> "UINT16", n |-> 0, value |-> 3]  \* L270
>>

\* ------------------------------------------ what the smoke test decodes
\* name = decode_...(regs, offset[, count]) of test_product_data; ndigits is
\* the second argument of round, -1 where round is not called
product_fields == <<
  [name |-> "name", offset |-> 0, type |-> "STRING", count |-> 17, ndigits |-> -1],  \* L117
  [name |-> "manufacturer", offset |-> 17, type |-> "STRING", count |-> 5, ndigits |-> -1],  \* L118
  [name |-> "modbus_table_version", offset |-> 22, type |-> "INT16", count |-> 0, ndigits |-> -1],  \* L119
  [name |-> "firmware_version", offset |-> 23, type |-> "STRING", count |-> 17, ndigits |-> -1],  \* L120
  [name |-> "platform_type", offset |-> 40, type |-> "STRING", count |-> 17, ndigits |-> -1],  \* L121
  [name |-> "serial", offset |-> 57, type |-> "STRING", count |-> 11, ndigits |-> -1],  \* L122
  [name |-> "year", offset |-> 68, type |-> "INT16", count |-> 0, ndigits |-> -1],  \* L125
  [name |-> "month", offset |-> 69, type |-> "INT16", count |-> 0, ndigits |-> -1],  \* L126
  [name |-> "day", offset |-> 70, type |-> "INT16", count |-> 0, ndigits |-> -1],  \* L127
  [name |-> "hour", offset |-> 71, type |-> "INT16", count |-> 0, ndigits |-> -1],  \* L128
  [name |-> "minute", offset |-> 72, type |-> "INT16", count |-> 0, ndigits |-> -1],  \* L129
  [name |-> "second", offset |-> 73, type |-> "INT16", count |-> 0, ndigits |-> -1],  \* L130
  [name |-> "uptime", offset |-> 74, type |-> "UINT64", count |-> 0, ndigits |-> -1],  \* L131
  [name |-> "utc_offset", offset |-> 78, type |-> "INT16", count |-> 0, ndigits |-> -1]  \* L132
>>

\* test_station_data
station_fields == <<
  [name |-> "actual_max_current", offset |-> 0, type |-> "FLOAT32", count |-> 0, ndigits |-> 2],  \* L169
  [name |-> "board_temperature", offset |-> 2, type |-> "FLOAT32", count |-> 0, ndigits |-> 2],  \* L170
  [name |-> "backoffice_connected", offset |-> 4, type |-> "UINT16", count |-> 0, ndigits |-> -1],  \* L171
  [name |-> "number_of_sockets", offset |-> 5, type |-> "UINT16", count |-> 0, ndigits |-> -1]  \* L172
>>

\* test_socket_energy_data
energy_fields == <<
  [name |-> "meter_state", offset |-> 0, type |-> "UINT16", count |-> 0, ndigits |-> -1],  \* L204
  [name |-> "meter_age", offset |-> 1, type |-> "UINT16", count |-> 0, ndigits |-> -1],  \* L205
  [name |-> "meter_type", offset |-> 5, type |-> "UINT16", count |-> 0, ndigits |-> -1],  \* L206
  [name |-> "v_l1n", offset |-> 6, type |-> "FLOAT32", count |-> 0, ndigits |-> 2],  \* L208
  [name |-> "v_l2n", offset |-> 8, type |-> "FLOAT32", count |-> 0, ndigits |-> 2],  \* L209
  [name |-> "v_l3n", offset |-> 10, type |-> "FLOAT32", count |-> 0, ndigits |-> 2],  \* L210
  [name |-> "v_l1l2", offset |-> 12, type |-> "FLOAT32", count |-> 0, ndigits |-> 2],  \* L212
  [name |-> "v_l2l3", offset |-> 14, type |-> "FLOAT32", count |-> 0, ndigits |-> 2],  \* L213
  [name |-> "v_l3l1", offset |-> 16, type |-> "FLOAT32", count |-> 0, ndigits |-> 2],  \* L214
  [name |-> "i_n", offset |-> 18, type |-> "FLOAT32", count |-> 0, ndigits |-> 2],  \* L216
  [name |-> "i_l1", offset |-> 20, type |-> "FLOAT32", count |-> 0, ndigits |-> 2],  \* L217
  [name |-> "i_l2", offset |-> 22, type |-> "FLOAT32", count |-> 0, ndigits |-> 2],  \* L218
  [name |-> "i_l3", offset |-> 24, type |-> "FLOAT32", count |-> 0, ndigits |-> 2],  \* L219
  [name |-> "i_sum", offset |-> 26, type |-> "FLOAT32", count |-> 0, ndigits |-> 2],  \* L220
  [name |-> "pf_l1", offset |-> 28, type |-> "FLOAT32", count |-> 0, ndigits |-> 2],  \* L222
  [name |-> "pf_l2", offset |-> 30, type |-> "FLOAT32", count |-> 0, ndigits |-> 2],  \* L223
  [name |-> "pf_l3", offset |-> 32, type |-> "FLOAT32", count |-> 0, ndigits |-> 2],  \* L224
  [name |-> "pf_sum", offset |-> 34, type |-> "FLOAT32", count |-> 0, ndigits |-> 2],  \* L225
  [name |-> "frequency", offset |-> 36, type |-> "FLOAT32", count |-> 0, ndigits |-> 2],  \* L227
  [name |-> "p_l1", offset |-> 38, type |-> "FLOAT32", count |-> 0, ndigits |-> 2],  \* L229
  [name |-> "p_l2", offset |-> 40, type |-> "FLOAT32", count |-> 0, ndigits |-> 2],  \* L230
  [name |-> "p_l3", offset |-> 42, type |-> "FLOAT32", count |-> 0, ndigits |-> 2],  \* L231
  [name |-> "p_sum", offset |-> 44, type |-> "FLOAT32", count |-> 0, ndigits |-> 2],  \* L232
  [name |-> "e_delivered_sum", offset |-> 74, type |-> "FLOAT64", count |-> 0, ndigits |-> 2]  \* L234
>>

\* test_socket_status_data
status_fields == <<
  [name |-> "availability", offset |-> 0, type |-> "UINT16", count |-> 0, ndigits |-> -1],  \* L275
  [name |-> "mode3_state", offset |-> 1, type |-> "STRING", count |-> 5, ndigits |-> -1],  \* L276
  [name |-> "actual_max_current", offset |-> 6, type |-> "FLOAT32", count |-> 0, ndigits |-> 2],  \* L277
  [name |-> "valid_time", offset |-> 8, type |-> "UINT32", count |-> 0, ndigits |-> -1],  \* L278
  [name |-> "max_current", offset |-> 10, type |-> "FLOAT32", count |-> 0, ndigits |-> 2],  \* L279
  [name |-> "safe_current", offset |-> 12, type |-> "FLOAT32", count |-> 0, ndigits |-> 2],  \* L280
  [name |-> "setpoint_accounted", offset |-> 14, type |-> "UINT16", count |-> 0, ndigits |-> -1],  \* L281
  [name |-> "charge_phases", offset |-> 15, type |-> "UINT16", count |-> 0, ndigits |-> -1]  \* L282
>>

\* the encoder of a row applied to its arguments
encode_value(row) ==
    CASE row.type = "STRING"  -> encode_string(row.value, row.n)
      [] row.type = "UINT16"  -> encode_uint16(row.value)
      [] row.type = "INT16"   -> encode_int16(row.value)
      [] row.type = "UINT32"  -> encode_uint32(row.value)
      [] row.type = "UINT64"  -> encode_uint64(row.value)
      [] row.type = "FLOAT32" -> encode_float(row.value[1], row.value[2])
      [] row.type = "FLOAT64" -> encode_double(row.value[1], row.value[2])

\* the decoder a row of the smoke test names, applied to the registers read
decode_field(regs, f) ==
    CASE f.type = "STRING"  -> decode_string(regs, f.offset, f.count)
      [] f.type = "UINT16"  -> decode_uint16(regs, f.offset)
      [] f.type = "INT16"   -> decode_int16(regs, f.offset)
      [] f.type = "UINT32"  -> decode_uint32(regs, f.offset)
      [] f.type = "UINT64"  -> decode_uint64(regs, f.offset)
      [] f.type = "FLOAT32" -> IF f.ndigits = 2 THEN round2(decode_float32(regs, f.offset))
                               ELSE decode_float32(regs, f.offset)
      [] f.type = "FLOAT64" -> IF f.ndigits = 2 THEN round2(decode_float64(regs, f.offset))
                               ELSE decode_float64(regs, f.offset)

\* smoke_test_ha.py:19: the unit the product and station tests address
DEFAULT_MODBUS_ADDRESS == 200

\* the register groups the four read tests ask for: first register, count and
\* the fields decoded (smoke_test_ha.py:108, 160, 195, 266)
SmokeGroups ==
    [product |-> [base |-> 100, count |-> 79, fields |-> product_fields],
     station |-> [base |-> 1100, count |-> 6, fields |-> station_fields],
     energy  |-> [base |-> 300, count |-> 125, fields |-> energy_fields],
     status  |-> [base |-> 1200, count |-> 16, fields |-> status_fields]]

\* rr = await client.read_holding_registers(base, count=count, device_id=unit),
\* the early return on rr.isError(), and the decoding of rr.registers
smoke_read(test, unit) ==
    LET g  == SmokeGroups[test]
        rr == server_read(store, unit, g.base, g.count)
    IN  /\ smoke' = IF rr.isError
                    THEN [test |-> test, unit |-> unit, isError |-> TRUE,
                          fields |-> <<>>]
                    ELSE [test |-> test, unit |-> unit, isError |-> FALSE,
                          fields |-> [i \in 1..Len(g.fields) |->
                                         decode_field(rr.registers, g.fields[i])]]
        /\ UNCHANGED <<store, numVars, codec, flow, resp, hass, simTask>>

\* smoke_test_ha.py:100-132
test_product_data(unit) == smoke_read("product", unit)

\* smoke_test_ha.py:152-172
test_station_data(unit) == smoke_read("station", unit)

\* smoke_test_ha.py:186-231
test_socket_energy_data(socket_id) == smoke_read("energy", socket_id)

\* smoke_test_ha.py:258-276
test_socket_status_data(socket_id) == smoke_read("status", socket_id)

\* smoke_test_ha.py:302-324: test_write_max_current up to its sleep
test_write_max_current(socket_id) ==
    /\ store' = server_write(store, socket_id, REG_SLAVE_MAX_CURRENT, encode_float(29, 2))
    /\ smoke' = [test |-> "write", unit |-> socket_id,
                 isError |-> server_write_isError(store, socket_id,
                                 REG_SLAVE_MAX_CURRENT, encode_float(29, 2)),
                 fields |-> <<>>]
    /\ UNCHANGED <<numVars, codec, flow, resp, hass, simTask>>

\* smoke_test_ha.py:326-337: test_write_max_current after its sleep
test_write_max_current_readback(socket_id) ==
    /\ smoke.test = "write" /\ smoke.unit = socket_id /\ ~smoke.isError
    /\ LET rr == server_read(store, socket_id, REG_ACTUAL_APPLIED, 2)
       IN  smoke' = IF rr.isError
                    THEN [test |-> "applied", unit |-> socket_id, isError |-> TRUE,
                          fields |-> <<>>]
                    ELSE [test |-> "applied", unit |-> socket_id, isError |-> FALSE,
                          fields |-> <<round2(decode_float32(rr.registers, 0))>>]
    /\ UNCHANGED <<store, numVars, codec, flow, resp, hass, simTask>>

\* ------------------------------------------------ config_flow.py: hosts
\* the labels of s.split("."), in order
SplitDot(s) ==
    LET dots == {i \in 1..Len(s) : s[i] = 46}
        n    == Cardinality(dots)
        cut  == [k \in 0..(n + 1) |->
                    IF k = 0 THEN 0
                    ELSE IF k = n + 1 THEN Len(s) + 1
                    ELSE CHOOSE i \in dots : Cardinality({j \in dots : j < i}) = k - 1]
    IN  [k \in 1..(n + 1) |-> SubSeq(s, cut[k - 1] + 1, cut[k] - 1)]

IsAsciiDigit(c) == c \in 48..57
IsAsciiLetter(c) == c \in 65..90 \/ c \in 97..122

\* \d of a str pattern matches every Unicode decimal digit: the ASCII ones
\* and, of the others, the Arabic-Indic digits U+0660..U+0669
IsReDigit(c) == IsAsciiDigit(c) \/ c \in 1632..1641

\* the decimal value of a string of at most three ASCII digits
OctetValue(x) ==
    IF Len(x) = 1 THEN x[1] - 48
    ELSE IF Len(x) = 2 THEN 10 * (x[1] - 48) + (x[2] - 48)
    ELSE 100 * (x[1] - 48) + 10 * (x[2] - 48) + (x[3] - 48)

\* ipaddress.IPv4Address(host) does not raise: four octets of one to three
\* ASCII digits, no leading zero, at most 255
ipv4_address(host) ==
    LET parts == SplitDot(host)
    IN  /\ Len(parts) = 4
        /\ \A k \in 1..4 :
              /\ Len(parts[k]) \in 1..3
              /\ \A i \in 1..Len(parts[k]) : IsAsciiDigit(parts[k][i])
              /\ Len(parts[k]) > 1 => parts[k][1] # 48
              /\ OctetValue(parts[k]) <= 255

\* the pieces of s.split(chr(c)), in order
SplitOn(s, c) ==
    LET seps == {i \in 1..Len(s) : s[i] = c}
        n    == Cardinality(seps)
        cut  == [k \in 0..(n + 1) |->
                    IF k = 0 THEN 0
                    ELSE IF k = n + 1 THEN Len(s) + 1
                    ELSE CHOOSE i \in seps : Cardinality({j \in seps : j < i}) = k - 1]
    IN  [k \in 1..(n + 1) |-> SubSeq(s, cut[k - 1] + 1, cut[k] - 1)]

\* ipaddress._HEX_DIGITS: 0-9, A-F, a-f
IsHexDigit(c) == c \in 48..57 \/ c \in 65..70 \/ c \in 97..102

\* IPv6Address._parse_hextet does not raise: one to four hex digits
hextet(x) == Len(x) \in 1..4 /\ \A i \in 1..Len(x) : IsHexDigit(x[i])

\* IPv6Address._split_scope_id: the address before the first "%"; the scope
\* id after it must be non-empty and hold no "%"
scope_split(host) ==
    LET pct == {i \in 1..Len(host) : host[i] = 37}
    IN  IF pct = {} THEN [ok |-> TRUE, addr |-> host]
        ELSE LET p == CHOOSE i \in pct : \A j \in pct : i <= j
             IN  [ok |-> p < Len(host) /\ Cardinality(pct) = 1,
                  addr |-> SubSeq(host, 1, p - 1)]

\* IPv6Address._ip_int_from_string(addr) does not raise
ip_int_from_string(addr) ==
    LET parts0 == SplitOn(addr, 58)
        suffix == \E i \in 1..Len(Last(parts0)) : Last(parts0)[i] = 46
        \* an IPv4 suffix becomes two hextets
        parts  == IF suffix
                  THEN SubSeq(parts0, 1, Len(parts0) - 1) \o << <<48>>, <<48>> >>
                  ELSE parts0
        n      == Len(parts)
        skips  == {i \in 2..(n - 1) : parts[i] = <<>>}
        skip   == CHOOSE i \in skips : TRUE
        hi0    == skip - 1
        lo0    == n - skip
        hi     == IF parts[1] = <<>> THEN hi0 - 1 ELSE hi0
        lo     == IF parts[n] = <<>> THEN lo0 - 1 ELSE lo0
    IN  /\ Len(parts0) >= 3
        /\ suffix => ipv4_address(Last(parts0))
        /\ n <= 9
        /\ Cardinality(skips) <= 1
        /\ IF skips # {}
           THEN /\ parts[1] = <<>> => hi = 0
                /\ parts[n] = <<>> => lo = 0
                /\ 8 - (hi + lo) >= 1
                /\ \A i \in 1..hi : hextet(parts[i])
                /\ \A i \in (n - lo + 1)..n : hextet(parts[i])
           ELSE /\ n = 8
                /\ \A i \in 1..n : hextet(parts[i])

\* ipaddress.IPv6Address(host) does not raise
ipv6_address(host) ==
    /\ \A i \in 1..Len(host) : host[i] # 47
    /\ scope_split(host).ok
    /\ ip_int_from_string(scope_split(host).addr)

\* re.compile(r"[^a-zA-Z\d\-]").search(x) finds a character
disallowed_search(x) ==
    \E i \in 1..Len(x) : ~(IsAsciiLetter(x[i]) \/ IsReDigit(x[i]) \/ x[i] = 45)

\* config_flow.py:39-46
host_valid(host) ==
    IF ipv4_address(host) \/ ipv6_address(host) THEN TRUE
    ELSE \A k \in 1..Len(SplitDot(host)) :
            SplitDot(host)[k] # <<>> /\ ~disallowed_search(SplitDot(host)[k])

\* the hosts a user submits: "10.0.0.5", "a_b", "eve-1.lan", "256.0.0.1",
\* "a b", "a..b", "" and the Arabic-Indic digit five
Hosts ==
    { <<49, 48, 46, 48, 46, 48, 46, 53>>,
      <<97, 95, 98>>,
      <<101, 118, 101, 45, 49, 46, 108, 97, 110>>,
      <<50, 53, 54, 46, 48, 46, 48, 46, 49>>,
      <<97, 32, 98>>,
      <<97, 46, 46, 98>>,
      <<>>,
      <<1637>> }

\* -------------------------------------------- config_flow.py: the flow
\* the config flows a user can have open at once
MaxFlows == 2
FlowIds == 1..MaxFlows

NoErrors == {}
NoHost == <<0>>

\* a flow not started
FlowNew ==
    [stage |-> "new", host |-> NoHost, errors |-> NoErrors, connected |-> FALSE]

\* the defaults of DATA_SCHEMA (config_flow.py:26-35, values of const.py)
FormDefaults == [name |-> "Alfen", port |-> 502, scan_interval |-> 5]

\* config_flow.py:26-35: the user_input of the user step for a host, the
\* other fields left at their defaults
user_input_of(host) ==
    [name |-> FormDefaults.name, host |-> host, port |-> FormDefaults.port,
     scan_interval |-> FormDefaults.scan_interval]

\* the options flow of an entry not open
OptionsClosed ==
    [stage |-> "closed", entry |-> NoHost, input |-> <<>>, errors |-> NoErrors]

\* no entry, no config flow started, no options flow open, nothing reloaded
FlowIdle ==
    [entries |-> {}, flows |-> [f \in FlowIds |-> FlowNew],
     options |-> OptionsClosed, reloads |-> 0]

\* alfen_modbus_entries finding no entry
alfen_modbus_entries_none(fl) == {}

\* config_flow.py:64-69
alfen_modbus_entries(fl) == {entry.data.host : entry \in fl.entries}

\* config_flow.py:84-88
host_in_configuration_exists(fl, host) == host \in alfen_modbus_entries(fl)

\* the unique ids of the entries, which _abort_if_unique_id_configured reads
unique_ids(fl) == {entry.unique_id : entry \in fl.entries}

\* config_flow.py:90-92, 111-113: async_step_user(None) shows the empty form
step_user_open(f) ==
    /\ flow.flows[f].stage = "new"
    /\ flow' = [flow EXCEPT !.flows[f].stage = "form"]
    /\ UNCHANGED <<store, numVars, codec, resp, smoke, hass, simTask>>

\* async_step_user checking the host's syntax before the duplicate
step_user_submit_syntax_first(f, host) ==
    /\ flow.flows[f].stage \in {"form", "errors"}
    /\ flow' = [flow EXCEPT !.flows[f] =
          IF ~host_valid(host)
          THEN [stage |-> "errors", host |-> host,
                errors |-> {<<"host", "invalid_host">>}, connected |-> FALSE]
          ELSE IF host_in_configuration_exists(flow, host)
          THEN [stage |-> "errors", host |-> host,
                errors |-> {<<"host", "already_configured">>}, connected |-> FALSE]
          ELSE [stage |-> "testing", host |-> host, errors |-> NoErrors,
                connected |-> FALSE]]
    /\ UNCHANGED <<store, numVars, codec, resp, smoke, hass, simTask>>

\* config_flow.py:94-102: async_step_user(user_input) up to the await of
\* async_test_connection; with an error found the form is shown again
step_user_submit(f, host) ==
    /\ flow.flows[f].stage \in {"form", "errors"}
    /\ flow' = [flow EXCEPT !.flows[f] =
          IF host_in_configuration_exists(flow, host)
          THEN [stage |-> "errors", host |-> host,
                errors |-> {<<"host", "already_configured">>}, connected |-> FALSE]
          ELSE IF ~host_valid(host)
          THEN [stage |-> "errors", host |-> host,
                errors |-> {<<"host", "invalid_host">>}, connected |-> FALSE]
          ELSE [stage |-> "testing", host |-> host, errors |-> NoErrors,
                connected |-> FALSE]]
    /\ UNCHANGED <<store, numVars, codec, resp, smoke, hass, simTask>>

\* config_flow.py:102-113: async_step_user from the result of
\* async_test_connection on
step_user_connected(f, result) ==
    /\ flow.flows[f].stage = "testing"
    /\ LET host == flow.flows[f].host
       IN  flow' =
             IF ~result
             THEN [flow EXCEPT !.flows[f] =
                      [stage |-> "errors", host |-> host,
                       errors |-> {<<"base", "cannot_connect">>},
                       connected |-> FALSE]]
             ELSE IF host \in unique_ids(flow)
             THEN [flow EXCEPT !.flows[f] =
                      [stage |-> "aborted", host |-> host, errors |-> NoErrors,
                       connected |-> TRUE]]
             ELSE [flow EXCEPT
                      !.entries = @ \cup {[unique_id |-> host,
                                            data |-> user_input_of(host)]},
                      !.flows[f] =
                         [stage |-> "created", host |-> host, errors |-> NoErrors,
                          connected |-> TRUE]]
    /\ UNCHANGED <<store, numVars, codec, resp, smoke, hass, simTask>>

\* ------------------------------------- config_flow.py: the options flow
\* the reloads of the integration looked at
MaxReloads == 2

\* the hosts an options form is submitted with: "10.0.0.5", "a_b"
OptionHosts == {<<49, 48, 46, 48, 46, 48, 46, 53>>, <<97, 95, 98>>}

\* the user_input of the options form (config_flow.py:149-176): host, port
\* and scan interval; the name is not a field of the form
OptionInputs ==
    [host : OptionHosts, port : {FormDefaults.port, 1502},
     scan_interval : {FormDefaults.scan_interval, 30}]

\* the entry an options flow was opened for
entry_of(fl) == CHOOSE e \in fl.entries : e.unique_id = fl.options.entry

\* an overlay that keeps the submitted input only
new_data_input_only(data, user_input) == user_input

\* config_flow.py:140: {**self.config_entry.data, **user_input}
new_data(data, user_input) == user_input @@ data

\* config_flow.py:138-146: async_update_entry with the merged data, one
\* async_reload, and the flow ends
options_commit(fl, user_input) ==
    [fl EXCEPT
        !.entries = (@ \ {entry_of(fl)})
                        \cup {[entry_of(fl) EXCEPT
                                  !.data = new_data(@, user_input)]},
        !.reloads = @ + 1,
        !.options = [stage |-> "done", entry |-> fl.options.entry,
                     input |-> user_input, errors |-> NoErrors]]

\* config_flow.py:123-125, 148-180: async_step_init(None) shows the form of
\* an entry
step_init_open(id) ==
    /\ flow.options.stage \in {"closed", "done"}
    /\ flow.reloads < MaxReloads
    /\ id \in unique_ids(flow)
    /\ flow' = [flow EXCEPT !.options =
                    [stage |-> "form", entry |-> id, input |-> <<>>,
                     errors |-> NoErrors]]
    /\ UNCHANGED <<store, numVars, codec, resp, smoke, hass, simTask>>

\* config_flow.py:127-135: async_step_init(user_input) up to the await of
\* async_test_connection, or to its end when host and port are the stored ones
step_init_submit(user_input) ==
    /\ flow.options.stage \in {"form", "errors"}
    /\ LET current_host == entry_of(flow).data.host
           current_port == entry_of(flow).data.port
       IN  flow' =
             IF user_input.host # current_host \/ user_input.port # current_port
             THEN [flow EXCEPT !.options =
                      [stage |-> "testing", entry |-> flow.options.entry,
                       input |-> user_input, errors |-> NoErrors]]
             ELSE options_commit(flow, user_input)
    /\ UNCHANGED <<store, numVars, codec, resp, smoke, hass, simTask>>

\* config_flow.py:135-146, 178-180: async_step_init from the result of
\* async_test_connection on
step_init_connected(result) ==
    /\ flow.options.stage = "testing"
    /\ flow' =
          IF ~result
          THEN [flow EXCEPT !.options.stage = "errors",
                            !.options.errors = {<<"base", "cannot_connect">>}]
          ELSE options_commit(flow, flow.options.input)
    /\ UNCHANGED <<store, numVars, codec, resp, smoke, hass, simTask>>

\* ------------------------------------------------ host_valid on its own
MaxHostLen == 3

\* "a", "1", ".", "-", ":"
HostChars == {97, 49, 46, 45, 58}

\* "01.0.0.1", "1.2.3", "::ffff:10.0.0.5", "fe80::1", "fe80::1%eth0",
\* "::1%", "1:2:3:4:5:6:7:8", "1:2:3:4:5:6:7:8:9", "1:2:3:4:5:6:7::",
\* "1::2::3", "g::1", "12345::", "::1/64", "a_b", "1٥", "EVE.Lan"
HostLiterals ==
    { <<48, 49, 46, 48, 46, 48, 46, 49>>,
      <<49, 46, 50, 46, 51>>,
      <<58, 58, 102, 102, 102, 102, 58, 49, 48, 46, 48, 46, 48, 46, 53>>,
      <<102, 101, 56, 48, 58, 58, 49>>,
      <<102, 101, 56, 48, 58, 58, 49, 37, 101, 116, 104, 48>>,
      <<58, 58, 49, 37>>,
      <<49, 58, 50, 58, 51, 58, 52, 58, 53, 58, 54, 58, 55, 58, 56>>,
      <<49, 58, 50, 58, 51, 58, 52, 58, 53, 58, 54, 58, 55, 58, 56, 58, 57>>,
      <<49, 58, 50, 58, 51, 58, 52, 58, 53, 58, 54, 58, 55, 58, 58>>,
      <<49, 58, 58, 50, 58, 58, 51>>,
      <<103, 58, 58, 49>>,
      <<49, 50, 51, 52, 53, 58, 58>>,
      <<58, 58, 49, 47, 54, 52>>,
      <<97, 95, 98>>,
      <<49, 1637>>,
      <<69, 86, 69, 46, 76, 97, 110>> }

\* the strings host_valid is called with
HostInputs ==
    Hosts \cup HostLiterals
        \cup UNION {[1..n -> HostChars] : n \in 0..MaxHostLen}

HostCalls == {codec_call("host_valid", h, 0) : h \in HostInputs}

\* host_valid(host) is called
call_host_valid ==
    /\ codec.op = "host_valid" /\ ~codec.done
    /\ codec' = [codec EXCEPT !.done = TRUE, !.out = host_valid(codec.arg)]
    /\ UNCHANGED <<store, numVars, flow, resp, smoke, hass, simTask>>

\* ============================================ entities and their callbacks
\* (number.py, binary_sensor.py; the hub's listener lists are spec section
\* 9: "the coordinator holds a set of listener handles")
\* binary_sensor.py:16-19: BINARY_SENSOR_TYPES, key -> icon_on, icon_off
BINARY_SENSOR_TYPES ==
    [ carconnected |-> [icon_on |-> "mdi:power-plug",
                        icon_off |-> "mdi:power-plug-off"],
      carcharging  |-> [icon_on |-> "mdi:battery-charging",
                        icon_off |-> "mdi:battery-off"] ]

\* binary_sensor.py:92: self._key = f"socket_{socket}_{key}"
sensor_key(socket, key) == <<"socket", socket, key>>

\* number.py:53-58 and binary_sensor.py:37-66: the entities of the platforms
NumberEntities == {<<"number", s>> : s \in Sockets}

SensorEntities ==
    {<<"binary_sensor", s, k>> : s \in Sockets, k \in DOMAIN BINARY_SENSOR_TYPES}

Entities == NumberEntities \cup SensorEntities

\* the bound methods an entity hands to the hub
None == <<"None">>

modbus_data_updated(e) == <<e, "_modbus_data_updated">>

update_value_callback(e) == <<e, "update_value">>

\* number.py:96 and binary_sensor.py:99: the arguments of
\* hub.async_add_alfen_sensor
added_callbacks(e) ==
    IF e \in NumberEntities
    THEN [update |-> modbus_data_updated(e), refresh |-> update_value_callback(e)]
    ELSE [update |-> modbus_data_updated(e), refresh |-> None]

\* an entity that takes back its update callback only
removed_callbacks_update_only(e) ==
    [update |-> modbus_data_updated(e), refresh |-> None]

\* number.py:99 and binary_sensor.py:103: the arguments of
\* hub.async_remove_alfen_sensor
removed_callbacks(e) ==
    IF e \in NumberEntities
    THEN [update |-> modbus_data_updated(e), refresh |-> update_value_callback(e)]
    ELSE [update |-> modbus_data_updated(e), refresh |-> None]

\* hub.async_add_alfen_sensor(update_callback, refresh_callback=None): the
\* handles join the hub's listeners
hub_add_alfen_sensor(h, cbs) ==
    [h EXCEPT !.sensors = @ \cup {cbs.update},
              !.inputs = IF cbs.refresh = None THEN @ ELSE @ \cup {cbs.refresh}]

\* hub.async_remove_alfen_sensor(update_callback, refresh_callback=None)
hub_remove_alfen_sensor(h, cbs) ==
    [h EXCEPT !.sensors = @ \ {cbs.update},
              !.inputs = IF cbs.refresh = None THEN @ ELSE @ \ {cbs.refresh}]

\* values hub.data can hold under a binary sensor's key, with their Python
\* type: 0, 1, 2, 1.0, True and the string "1" (a str is given by the number
\* its digits spell)
SensorValues ==
    {<<"int", 0>>, <<"int", 1>>, <<"int", 2>>, <<"float", 1>>,
     <<"bool", 1>>, <<"str", 1>>}

\* Python's value == 1: int, float and bool compare by number, a str is
\* never equal to an int
py_eq_1(value) == value[1] \in {"int", "float", "bool"} /\ value[2] = 1

\* Python's truth value of a value of SensorValues (a non-empty str is true)
py_truthy(value) == value[1] = "str" \/ value[2] # 0

\* a sensor that is on for every truthy value
is_on_truthy(data, key) ==
    IF key \in DOMAIN data THEN py_truthy(data[key]) ELSE FALSE

\* binary_sensor.py:120-125
is_on(data, key) ==
    IF key \in DOMAIN data THEN py_eq_1(data[key]) ELSE FALSE

\* binary_sensor.py:127-130
icon(data, e) ==
    IF is_on(data, sensor_key(e[2], e[3]))
    THEN BINARY_SENSOR_TYPES[e[3]].icon_on
    ELSE BINARY_SENSOR_TYPES[e[3]].icon_off

\* the entries of hub.data under the binary sensors' keys after a poll cycle:
\* both sensors of a socket hold connected, charging; a socket whose read
\* failed before the first success has no entries
socket_entries(s, connected, charging) ==
    [k \in {sensor_key(s, "carconnected"), sensor_key(s, "carcharging")} |->
        IF k = sensor_key(s, "carconnected") THEN connected ELSE charging]

SensorSnapshots ==
    { <<>>,
      socket_entries(1, <<"int", 1>>, <<"int", 0>>),
      socket_entries(1, <<"int", 2>>, <<"float", 1>>)
          @@ socket_entries(2, <<"bool", 1>>, <<"str", 1>>),
      socket_entries(1, <<"int", 0>>, <<"int", 1>>)
          @@ socket_entries(2, <<"int", 1>>, <<"int", 2>>) }

\* no entity added, no callback held, nothing polled, no state written
NoState == [written |-> FALSE]

HassIdle ==
    [ sensors |-> {}, inputs |-> {}, added |-> {}, data |-> <<>>,
      states |-> [e \in Entities |-> NoState] ]

\* the state async_write_ha_state reads from the entity's properties
entity_state(e, data) ==
    IF e \in SensorEntities
    THEN [written |-> TRUE, is_on |-> is_on(data, sensor_key(e[2], e[3])),
          icon |-> icon(data, e)]
    ELSE [written |-> TRUE, native_value |-> native_value(hubData, e[2])]

\* number.py:94-96, binary_sensor.py:97-99: the entity is added
async_added_to_hass(e) ==
    /\ e \notin hass.added
    /\ hass' = [hub_add_alfen_sensor(hass, added_callbacks(e))
                    EXCEPT !.added = @ \cup {e}]
    /\ UNCHANGED <<store, numVars, codec, flow, resp, smoke, simTask>>

\* number.py:98-99, binary_sensor.py:101-103: the entity is removed
async_will_remove_from_hass(e) ==
    /\ e \in hass.added
    /\ hass' = [hub_remove_alfen_sensor(hass, removed_callbacks(e))
                    EXCEPT !.added = @ \ {e}]
    /\ UNCHANGED <<store, numVars, codec, flow, resp, smoke, simTask>>

\* a poll cycle publishes the binary sensors' entries
sensor_poll(snap) ==
    /\ hass' = [hass EXCEPT !.data = snap]
    /\ UNCHANGED <<store, numVars, codec, flow, resp, smoke, simTask>>

\* number.py:101-103, binary_sensor.py:105-108: the hub calls an update
\* callback it holds; the entity writes its state
data_updated(e) ==
    /\ modbus_data_updated(e) \in hass.sensors
    /\ hass' = [hass EXCEPT !.states[e] = entity_state(e, hass.data)]
    /\ UNCHANGED <<store, numVars, codec, flow, resp, smoke, simTask>>

\* ====================================================== specifications
\* simulator.py:307-311: the three contexts of the server
server_context(now) ==
    [u \in Units |->
        IF u = ADDRESS_PRODUCT THEN setup_product_context(now)
        ELSE setup_socket_context(u)]

\* number.py:78-92 and an unpolled hub
NumInit ==
    /\ hubData = [k \in Keys |-> Absent]
    /\ nativeMax = [s \in Sockets |-> AttrMax]
    /\ waiting = [s \in Sockets |-> <<>>]
    /\ inflight = [s \in Sockets |-> <<>>]
    /\ log = <<>>
    /\ ncalls = 0
    /\ acked = [s \in Sockets |-> {}]

\* no encoder called, no config flow started, no request recorded
AuxInit ==
    /\ codec = CodecIdle
    /\ flow = FlowIdle
    /\ resp = NoResponse
    /\ smoke = SmokeIdle
    /\ hass = HassIdle

\* simulator.py:332: the task running update_simulation is created
SimInit == \E now \in Nows : store = server_context(now) /\ simTask = "running"

\* no simulator in the process
NoSim == store = <<>> /\ simTask = "none"

Init == SimInit /\ NumInit /\ AuxInit

\* the simulator serving arbitrary clients
Next ==
    \/ Tick
    \/ \E u \in Units, a \in WriteAddrs, p \in ClientPayloads : ClientWrite(u, a, p)
    \/ \E u \in Units, a \in ReadAddrs, c \in ReadCounts : ClientRead(u, a, c)

Spec == Init /\ [][Next]_vars

\* the simulator serving clients that write the commanded current of a socket
\* as one FLOAT32 (both registers in one request)
MirrorNext ==
    \/ Tick
    \/ \E u \in Sockets, p \in ClientFloats : ClientWrite(u, REG_SLAVE_MAX_CURRENT, p)
    \/ \E u \in Sockets, a \in {REG_ACTUAL_APPLIED, REG_SLAVE_MAX_CURRENT} :
           ClientRead(u, a, 2)

SpecMirror == Init /\ [][MirrorNext]_vars

\* the integration: number entities, hub and poll cycle (no simulator in the
\* process)
NumberInit == NoSim /\ NumInit /\ AuxInit

NumberNext ==
    \/ \E s \in Sockets, v \in ReqValues : async_set_native_value(s, v)
    \/ \E s \in Sockets : refresh_callback(s)
    \/ \E u \in Sockets : hub_submit(u)
    \/ \E u \in Sockets : hub_resolve(u)
    \/ \E u \in Sockets : hub_fail(u)
    \/ \E snap \in PollSnapshots : poll_publish(snap)

SpecNumber == NumberInit /\ [][NumberNext]_vars

\* the simulator serving a client that keeps each response, and asks for
\* units with and without a context
ServerNext ==
    \/ Tick
    \/ \E u \in RequestUnits, a \in RequestAddrs, p \in RequestPayloads :
           request_write(u, a, p)
    \/ \E u \in RequestUnits, a \in RequestAddrs, c \in RequestCounts :
           request_read(u, a, c)

SpecServer == Init /\ [][ServerNext]_vars

\* the simulator serving the smoke test: its functions in any order, each
\* any number of times, the simulation task ticking in between
SmokeNext ==
    \/ Tick
    \/ test_product_data(DEFAULT_MODBUS_ADDRESS)
    \/ test_station_data(DEFAULT_MODBUS_ADDRESS)
    \/ \E s \in Sockets : test_socket_energy_data(s)
    \/ \E s \in Sockets : test_socket_status_data(s)
    \/ \E s \in Sockets : test_write_max_current(s)
    \/ \E s \in Sockets : test_write_max_current_readback(s)

SpecSmoke == Init /\ [][SmokeNext]_vars

\* the setup wizard: users with up to MaxFlows flows open, the connection
\* test succeeding or failing
FlowInit ==
    /\ NoSim /\ NumInit /\ AuxInit

FlowNext ==
    \/ \E f \in FlowIds : step_user_open(f)
    \/ \E f \in FlowIds, host \in Hosts : step_user_submit(f, host)
    \/ \E f \in FlowIds, result \in BOOLEAN : step_user_connected(f, result)

SpecFlow == FlowInit /\ [][FlowNext]_vars

\* the encoders and decoders applied to inputs of every kind
CodecInit ==
    /\ NoSim /\ NumInit
    /\ flow = FlowIdle /\ resp = NoResponse /\ smoke = SmokeIdle
    /\ hass = HassIdle
    /\ codec \in CodecCalls

CodecNext ==
    \/ codec_string
    \/ codec_uint16
    \/ codec_int16
    \/ codec_uint32
    \/ codec_uint64

SpecCodec == CodecInit /\ [][CodecNext]_vars

\* the entities of the platforms and the hub's callbacks
HassNext ==
    \/ \E e \in Entities : async_added_to_hass(e)
    \/ \E e \in Entities : async_will_remove_from_hass(e)
    \/ \E snap \in SensorSnapshots : sensor_poll(snap)
    \/ \E e \in Entities : data_updated(e)

SpecHass == NumberInit /\ [][HassNext]_vars

\* simulator.py:307-311 with the socket units of missing left out
degraded_context(now, missing) ==
    [u \in Units \ missing |-> server_context(now)[u]]

DegradedInit ==
    /\ \E now \in Nows, missing \in {{}, {ADDRESS_SOCKET_1}, {ADDRESS_SOCKET_2}} :
           store = degraded_context(now, missing)
    /\ simTask = "running"
    /\ NumInit /\ AuxInit

\* the simulator serving clients from a context that may lack a socket unit
SpecDegraded == DegradedInit /\ [][Next]_vars

HostInit ==
    /\ NoSim /\ NumInit
    /\ flow = FlowIdle /\ resp = NoResponse /\ smoke = SmokeIdle
    /\ hass = HassIdle
    /\ codec \in HostCalls

\* host_valid called once with each input
SpecHost == HostInit /\ [][call_host_valid]_vars

\* the setup wizard and the options flow of an entry
OptionsNext ==
    \/ FlowNext
    \/ \E id \in Hosts : step_init_open(id)
    \/ \E user_input \in OptionInputs : step_init_submit(user_input)
    \/ \E result \in BOOLEAN : step_init_connected(result)

SpecOptions == FlowInit /\ [][OptionsNext]_vars

\* =============================================================== claims
\* the stores right after setup, and the calls that built them
InitStoreOf == [now \in Nows |-> server_context(now)]
CallsOf == [now \in Nows |->
               [u \in Units |-> IF u = ADDRESS_PRODUCT THEN product_calls(now)
                                ELSE socket_calls]]

\* register r is written again by a call after the k-th
WrittenLater(calls, k, r) ==
    \E m \in (k + 1)..Len(calls) :
        calls[m].register <= r /\ r < calls[m].register + Len(calls[m].values)

Read2(st, unit, address) == server_read(st, unit, address, 2).registers

\* C1 (a): right after setup, the word setup stored for register N (by its
\* last setValues(reg(N), ...) covering N) is what a client read at N returns,
\* and in every state a read at N returns the cells reg(N), reg(N + 1), ...
C1_SetupRead ==
    /\ \A now \in Nows :
         store = InitStoreOf[now] =>
           \A u \in Units :
             LET calls == CallsOf[now][u]
             IN  \A k \in 1..Len(calls) : \A j \in 1..Len(calls[k].values) :
                    WrittenLater(calls, k, calls[k].register + j - 1)
                    \/ server_read(store, u, calls[k].register + j - 1, 1)
                         = [isError |-> FALSE, registers |-> <<calls[k].values[j]>>]
    /\ \A u \in Units, a \in ReadAddrs, c \in ReadCounts :
         server_read(store, u, a, c)
           = [isError |-> FALSE,
              registers |-> [i \in 1..c |-> block_cell(store[u], reg(a + i - 1))]]

\* C1 (b): a client write at N is what a client read at N returns afterwards
C1_WriteRead ==
    \A u \in Units :
        store'[u] # store[u] =>
            \A a \in WriteAddrs, p \in ClientPayloads :
                ClientWrite(u, a, p) =>
                    server_read(store', u, a, Len(p))
                        = [isError |-> FALSE, registers |-> p]

\* C1 (c): a tick moves the cells reg(1210), reg(1210)+1 of each socket unit
\* into the cells reg(1206), reg(1206)+1 and touches no other cell
C1_MirrorCells ==
    Tick =>
      /\ store'[ADDRESS_PRODUCT] = store[ADDRESS_PRODUCT]
      /\ \A u \in Sockets : \A k \in 0..(BlockSize - 1) :
            block_cell(store'[u], k) =
                IF k \in {reg(REG_ACTUAL_APPLIED), reg(REG_ACTUAL_APPLIED) + 1}
                THEN block_cell(store[u], reg(REG_SLAVE_MAX_CURRENT)
                                            + (k - reg(REG_ACTUAL_APPLIED)))
                ELSE block_cell(store[u], k)

C2_MirrorDelay ==
    [][\A u \in Sockets :
         /\ \A p \in ClientPayloads :
              (Len(p) = 2 /\ ClientWrite(u, REG_SLAVE_MAX_CURRENT, p))
                 => Read2(store', u, REG_SLAVE_MAX_CURRENT) = p
         /\ Tick =>
              /\ Read2(store', u, REG_ACTUAL_APPLIED) = Read2(store, u, REG_SLAVE_MAX_CURRENT)
              /\ Read2(store', u, REG_SLAVE_MAX_CURRENT) = Read2(store, u, REG_SLAVE_MAX_CURRENT)
      ]_vars

\* socket 2 applied the written 14.5 while its 1206 once held another value:
\* the commanded current is 14.5 and the applied current is 14.5
C2_Witness ==
    /\ Read2(store, ADDRESS_SOCKET_2, REG_SLAVE_MAX_CURRENT) = encode_float(29, 2)
    /\ Read2(store, ADDRESS_SOCKET_2, REG_ACTUAL_APPLIED) = encode_float(29, 2)
    /\ Read2(store, ADDRESS_SOCKET_1, REG_ACTUAL_APPLIED) = encode_float(16, 1)

\* the FLOAT32 values a socket's control field holds when clients write whole
\* fields: the initial 16.0 (simulator.py:267) and the written ones
WholeValues == ClientFloats \cup {encode_float(16, 1)}

\* C7: atomicity of multi-register fields: with ticks and whole-field client
\* writes to 1210-1211 interleaved in any order, 1206-1207 and 1210-1211 of a
\* socket unit (what a client read returns for them) always hold both words of
\* one value.
C7_NoTornField ==
    \A u \in Sockets : \A a \in {REG_ACTUAL_APPLIED, REG_SLAVE_MAX_CURRENT} :
        /\ ~server_read(store, u, a, 2).isError
        /\ Read2(store, u, a) \in WholeValues

\* a write landed between two ticks: 1206 still holds the older written value
\* 10.1 whole while 1210 already holds 12.5
C7_Witness ==
    /\ Read2(store, ADDRESS_SOCKET_1, REG_ACTUAL_APPLIED) = encode_float(101, 10)
    /\ Read2(store, ADDRESS_SOCKET_1, REG_SLAVE_MAX_CURRENT) = encode_float(25, 2)

\* the registers [register, register + width) of two fields do not meet
FieldsDisjoint(f, g) ==
    \/ f.register + TypeWidth(f.type, f.n) <= g.register
    \/ g.register + TypeWidth(g.type, g.n) <= f.register

NoOverlap(calls) ==
    \A i \in 1..Len(calls) : \A j \in 1..Len(calls) :
        i < j => FieldsDisjoint(calls[i], calls[j])

\* C10: field non-overlap: no two fields of the register maps built by
\* setup_product_context and setup_socket_context intersect, and right after
\* setup every field's registers hold the encoding it was initialised with.
C10_FieldNonOverlap ==
    \A now \in Nows :
        /\ NoOverlap(CallsOf[now][ADDRESS_PRODUCT])
        /\ NoOverlap(socket_calls)
        /\ store = InitStoreOf[now] =>
             \A u \in Units : \A k \in 1..Len(CallsOf[now][u]) :
                LET f == CallsOf[now][u][k]
                IN  server_read(store, u, f.register, TypeWidth(f.type, f.n)).registers
                        = f.values

\* ---------------------------------------------------- the number entity
\* the calls of hub.write_registers for a unit that have not resolved
Pending(u) == inflight[u] \o waiting[u]

\* C3: clamp on set: async_set_native_value(v) called while hub data holds a
\* hard limit L under actualMaxCurrent hands exactly one call to
\* hub.write_registers, encoding min(v, L); with v > L the clamp warning is
\* logged, with v <= L nothing is logged and the value is v.
C3_ClampOnSet ==
    [][\A s \in Sockets, v \in ReqValues :
         (hubData[ACTUAL_MAX_CURRENT] # Absent /\ async_set_native_value(s, v)) =>
            LET L == hubData[ACTUAL_MAX_CURRENT]
                m == RMin(v, L)
                f == Last(waiting'[s])
            IN  /\ Len(waiting'[s]) = Len(waiting[s]) + 1
                /\ f.caller = "set" /\ f.unit = s /\ f.address = REG_SLAVE_MAX_CURRENT
                /\ f.value = m
                /\ f.payload = encode_float(m[1], m[2])
                /\ RGt(v, L) => log' = Append(log, <<v, L>>)
                /\ RLe(v, L) => (log' = log /\ f.value = v)
      ]_vars

\* Scenario 4: 40.0 A was requested under the hard limit 32.0 A: the warning
\* is recorded and the call to the hub carries 32.0
C3_Witness ==
    /\ log # <<>> /\ log[1] = << <<40, 1>>, <<32, 1>> >>
    /\ \E s \in Sockets : \E i \in 1..Len(Pending(s)) :
          /\ Pending(s)[i].caller = "set"
          /\ Pending(s)[i].value = <<32, 1>>
          /\ Pending(s)[i].payload = encode_float(32, 1)

\* C4: clamp law over all transmissions: whatever set-value calls, poll
\* updates and refresh callbacks came before, every value handed to
\* hub.write_registers is at most the hard limit actualMaxCurrent that hub
\* data held when it was handed over.
C4_ClampLaw ==
    \A u \in Sockets : \A i \in 1..Len(Pending(u)) :
        Pending(u)[i].limit = Absent \/ RLe(Pending(u)[i].value, Pending(u)[i].limit)

\* C5: clamp fallback: a set-value call made while actualMaxCurrent is absent
\* from hub data transmits at most the static maximum attrs["max"].
C5_ClampFallback ==
    \A u \in Sockets : \A i \in 1..Len(Pending(u)) :
        (Pending(u)[i].caller = "set" /\ Pending(u)[i].limit = Absent)
            => RLe(Pending(u)[i].value, AttrMax)

\* C6: validation before transmission: nothing is handed to
\* hub.write_registers for a set-value request whose value after clamping is
\* below attrs["min"] or above attrs["max"].
C6_Validation ==
    \A u \in Sockets : \A i \in 1..Len(Pending(u)) :
        Pending(u)[i].caller = "set"
            => (RLe(AttrMin, Pending(u)[i].value) /\ RLe(Pending(u)[i].value, AttrMax))

\* the calls of s are in the order they were made
InOrder(s) == \A i \in 1..Len(s) : \A j \in 1..Len(s) : i < j => s[i].seq < s[j].seq

\* every call of s1 is a call of s2
Within(s1, s2) == \A i \in 1..Len(s1) : \E j \in 1..Len(s2) : s2[j] = s1[i]

\* C8: at most one in-flight write per device: a unit never has two writes on
\* the wire; a write waits while an earlier one of its unit is unresolved, so
\* the unresolved writes of a unit are on the wire in the order they were
\* requested; and a waiting write leaves the queue only onto the wire, a write
\* on the wire only by resolving (delivered or failed).
C8_OneInFlight ==
    /\ [](\A u \in Sockets : Len(inflight[u]) <= 1 /\ InOrder(Pending(u)))
    /\ [][\A u \in Sockets :
            /\ Within(waiting[u], Pending(u)')
            /\ Within(inflight[u], inflight'[u]) \/ hub_resolve(u) \/ hub_fail(u)
         ]_vars

\* a second set-value call for socket 1 came while the first is on the wire:
\* the second waits
C8_Witness ==
    /\ Len(inflight[ADDRESS_SOCKET_1]) = 1
    /\ inflight[ADDRESS_SOCKET_1][1].caller = "set"
    /\ Len(waiting[ADDRESS_SOCKET_1]) = 1
    /\ waiting[ADDRESS_SOCKET_1][1].caller = "set"
    /\ inflight[ADDRESS_SOCKET_1][1].seq < waiting[ADDRESS_SOCKET_1][1].seq

\* C9: snapshot integrity: hub data is only ever a whole published snapshot
\* (or the empty mapping before the first poll); no key of it is set in place.
C9_SnapshotIntegrity ==
    hubData = [k \in Keys |-> Absent] \/ hubData \in PollSnapshots

\* ------------------------------------------------------------- the codecs
\* C11: string encoding never overflows its field: encode_string(s, n)
\* returns exactly ceil(n / 2) registers for every string s, characters of
\* more than one UTF-8 byte included, and every declared byte length n.
C11_StringFitsField ==
    (codec.op = "STRING" /\ codec.done)
        => Len(codec.out) = TypeWidth("STRING", codec.n)

\* C12: integer round-trip: decode_uint16(encode_uint16(v)) = v for v in
\* 0..65535; decode_int16(encode_int16(v)) = v for v in -32768..32767, a word
\* >= 0x8000 decoding as word - 65536; decode_uint32(encode_uint32(v)) = v for
\* v in 0..2^32-1; decode_uint64(encode_uint64(v)) = v for v in 0..2^64-1.
C12_IntegerRoundTrip ==
    codec.done =>
        /\ (codec.op = "UINT16" /\ codec.arg \in 0..65535) => codec.back = codec.arg
        /\ (codec.op = "INT16" /\ codec.arg \in (-32768)..32767) =>
              /\ codec.back = codec.arg
              /\ codec.out[1] >= 32768 => codec.back = codec.out[1] - 65536
              /\ codec.out[1] < 32768 => codec.back = codec.out[1]
        /\ codec.op = "UINT32" => codec.back = codec.arg
        /\ codec.op = "UINT64" => codec.back = codec.arg

\* -1 went through the INT16 codec as the word 0xFFFF, 2^64 - 1 is tried too
C12_Witness ==
    /\ codec.done /\ codec.op = "INT16" /\ codec.arg = -1
    /\ codec.out = <<65535>> /\ codec.back = -1
    /\ codec_call("UINT64", <<65535, 16777215, 16777215>>, 0) \in CodecCalls

\* C13: string round-trip: for a string s of at most n UTF-8 bytes that
\* neither begins nor ends with NUL, encode_string(s, n) gives ceil(n / 2)
\* registers and decoding them (registers joined big-endian, padding stripped)
\* gives s, with either decoder; "Alfen Eve Single Pro-line" with n = 34 gives
\* 17 registers and decodes to itself.
C13_StringRoundTrip ==
    (/\ codec.op = "STRING" /\ codec.done
     /\ Len(utf8_encode(codec.arg)) <= codec.n
     /\ codec.arg # <<>> => (Head(codec.arg) # 0 /\ Last(codec.arg) # 0))
        => /\ Len(codec.out) = (codec.n + 1) \div 2
           /\ codec.back = codec.arg
           /\ codec.strict = [error |-> FALSE, value |-> codec.arg]
           /\ (codec.arg = ProductName /\ codec.n = ProductNameBytes)
                 => Len(codec.out) = 17

\* Scenario 2: the product name went through encode_string and decode_string
C13_Witness ==
    /\ codec.done /\ codec.op = "STRING"
    /\ codec.arg = ProductName /\ codec.n = ProductNameBytes
    /\ Len(codec.out) = 17 /\ codec.back = ProductName

\* digit k (0: least significant) of the wide natural v in base 2^16
Digit16(v, k) ==
    CASE k = 0 -> v[3] % 65536
      [] k = 1 -> (v[3] \div 65536) + (v[2] % 256) * 256
      [] k = 2 -> v[2] \div 256
      [] k = 3 -> v[1] % 65536

\* C20: big-endian word layout: encode_uint32(v) = [v div 2^16, v mod 2^16];
\* encode_uint64(v) is the four base-2^16 digits of v, most significant first;
\* encode_uint16(v) and encode_int16(v) are the one word v mod 2^16 for every
\* integer v, a negative v giving its two's-complement word; every word lies
\* in 0..65535.
C20_BigEndianWords ==
    codec.done =>
        /\ codec.op = "UINT32" => codec.out = <<Digit16(codec.arg, 1), Digit16(codec.arg, 0)>>
        /\ codec.op = "UINT64" =>
              codec.out = <<Digit16(codec.arg, 3), Digit16(codec.arg, 2),
                            Digit16(codec.arg, 1), Digit16(codec.arg, 0)>>
        /\ codec.op \in {"UINT16", "INT16"} =>
              /\ Len(codec.out) = 1
              /\ \E q \in -2..2 : codec.arg = q * 65536 + codec.out[1]
              /\ codec.arg \in (-32768)..(-1) => codec.out[1] = codec.arg + 65536
        /\ codec.op \in {"UINT16", "INT16", "UINT32", "UINT64"} =>
              \A i \in 1..Len(codec.out) : codec.out[i] \in 0..65535

\* 0x123456789ABCDEF0 was encoded as the words 0x1234 0x5678 0x9ABC 0xDEF0
C20_Witness ==
    /\ codec.done /\ codec.op = "UINT64"
    /\ codec.arg = <<4660, 5666970, 12377840>>
    /\ codec.out = <<4660, 22136, 39612, 57072>>

\* the units whose registers a step changed
ChangedUnits == {u \in Units : store'[u] # store[u]}

\* one pass of the mirror over unit u in a server that holds unit u only
mirror_alone(st, u) == mirror_unit([v \in {u} |-> st[v]], u)[u]

C14_Step ==
    ChangedUnits # {} =>
        /\ \A u \in Units, a \in WriteAddrs, p \in ClientPayloads :
              ClientWrite(u, a, p) => ChangedUnits \subseteq {u}
        /\ Tick =>
              \A u \in Units :
                  store'[u] = IF u \in Sockets THEN mirror_alone(store, u)
                              ELSE store[u]

\* C14: device independence: in every step of the simulator under client
\* writes and mirror ticks, a write addressed to one unit changes the registers
\* of no other unit, and a tick leaves in each socket unit what the mirror
\* makes of that unit's own registers alone (1206-1207 of a socket receive the
\* 1210-1211 of the same socket, never those of the other) and leaves the
\* product unit as it was.
C14_DeviceIndependence == [][C14_Step]_vars

\* socket 1 was commanded 14.5 and applied it, while socket 2 and the product
\* unit still hold what setup gave them at 1206 and 1210
C14_Witness ==
    /\ Read2(store, ADDRESS_SOCKET_1, REG_SLAVE_MAX_CURRENT) = encode_float(29, 2)
    /\ Read2(store, ADDRESS_SOCKET_1, REG_ACTUAL_APPLIED) = encode_float(29, 2)
    /\ Read2(store, ADDRESS_SOCKET_2, REG_SLAVE_MAX_CURRENT) = encode_float(16, 1)
    /\ Read2(store, ADDRESS_SOCKET_2, REG_ACTUAL_APPLIED) = encode_float(16, 1)
    /\ Read2(store, ADDRESS_PRODUCT, REG_SLAVE_MAX_CURRENT) = <<0, 0>>
    /\ Read2(store, ADDRESS_PRODUCT, REG_ACTUAL_APPLIED) = <<0, 0>>

\* the number of consecutive ticks compared with one tick
MaxTicks == 3

\* n >= 1 ticks of update_simulation with no client write in between
RECURSIVE ticks(_, _)
ticks(st, n) ==
    IF n <= 1 THEN mirror_units(st, SocketUnits)
    ELSE mirror_units(ticks(st, n - 1), SocketUnits)

\* the status field of every socket unit equals its control field
MirrorSettled(st) ==
    \A u \in Sockets :
        Read2(st, u, REG_ACTUAL_APPLIED) = Read2(st, u, REG_SLAVE_MAX_CURRENT)

\* C17: mirror idempotence: in every state the simulator reaches, a tick taken
\* when 1206-1207 already equal 1210-1211 leaves every register of every unit
\* as it is, and 2..MaxTicks consecutive ticks leave the same registers as one
\* tick.
C17_MirrorIdempotence ==
    /\ MirrorSettled(store) => mirror_units(store, SocketUnits) = store
    /\ \A n \in 2..MaxTicks : ticks(store, n) = ticks(store, 1)

\* both sockets were commanded 14.5 and a tick applied it: the next tick finds
\* the fields equal
C17_Witness ==
    /\ MirrorSettled(store)
    /\ \A u \in Sockets :
          Read2(store, u, REG_ACTUAL_APPLIED) = encode_float(29, 2)

\* the response answers a request for a unit without a context
UnknownAnswered == resp.fc # "none" /\ resp.unit \in UnknownUnits

\* C16: unknown device: a read or a write request addressed to a unit id other
\* than 200, 1 and 2 is answered with an error response carrying no registers
\* (so with no register of another unit's store), and the request leaves
\* every store as it was.
C16_UnknownDevice ==
    /\ [](UnknownAnswered => resp.isError /\ resp.registers = <<>>)
    /\ [][resp'.unit \in UnknownUnits /\ resp' # resp => store' = store]_vars

\* a write of 14.5 to 1210 of the unregistered unit 3 was answered with an
\* error while socket 1, written before, holds 14.5 there and socket 2 the
\* initial 16.0
C16_Witness ==
    /\ resp.fc = "write" /\ resp.unit = 3 /\ resp.isError
    /\ Read2(store, ADDRESS_SOCKET_1, REG_SLAVE_MAX_CURRENT) = encode_float(29, 2)
    /\ Read2(store, ADDRESS_SOCKET_2, REG_SLAVE_MAX_CURRENT) = encode_float(16, 1)

\* the arguments setup gave to the encoders for a unit
InitOf(now, unit) == IF unit = ADDRESS_PRODUCT THEN product_init(now) ELSE socket_init

\* the registers a row of the smoke test decodes
FieldWidth(f) == IF f.type = "STRING" THEN f.count ELSE TypeWidth(f.type, 0)

\* the decoded value v of a field of the given type is the value setup encoded
SameValue(type, v, init) ==
    IF type \in {"FLOAT32", "FLOAT64"} THEN RatEq(v, init) ELSE v = init

\* field f, read from the group starting at base and decoded to v, is a field
\* of setup: same register, type and width, and v is the value setup encoded
FieldAgrees(rows, base, f, v) ==
    \E k \in 1..Len(rows) :
        /\ rows[k].register = base + f.offset
        /\ rows[k].type = f.type
        /\ TypeWidth(rows[k].type, rows[k].n) = FieldWidth(f)
        /\ SameValue(f.type, v, rows[k].value)

\* the smoke test read a group of a unit whose registers are as setup left them
SmokeOnSetup(now) ==
    /\ smoke.test \in DOMAIN SmokeGroups /\ ~smoke.isError
    /\ store[smoke.unit] = InitStoreOf[now][smoke.unit]

\* C19: producer/consumer field agreement: the tables of values used here are
\* the ones setup encoded, and for every field the smoke test decodes from the
\* groups 100-178, 1100-1105, 300-424 and 1200-1215 of registers still as
\* setup left them, setup encoded a field at that register with that type and
\* width, and the decoded value is the value setup encoded.
C19_FieldAgreement ==
    \A now \in Nows :
        /\ \A u \in Units :
              \A k \in 1..Len(CallsOf[now][u]) :
                  /\ InitOf(now, u)[k].register = CallsOf[now][u][k].register
                  /\ InitOf(now, u)[k].type = CallsOf[now][u][k].type
                  /\ encode_value(InitOf(now, u)[k]) = CallsOf[now][u][k].values
        /\ SmokeOnSetup(now) =>
              LET g == SmokeGroups[smoke.test]
              IN  \A i \in 1..Len(g.fields) :
                      FieldAgrees(InitOf(now, smoke.unit), g.base, g.fields[i],
                                  smoke.fields[i])

\* the fields of the smoke test that do not name the type setup encoded
MistypedFields == {"meter_age", "modbus_table_version"}

\* the agreement holds for every other field
C19_AgreementElsewhere ==
    \A now \in Nows :
        SmokeOnSetup(now) =>
            LET g == SmokeGroups[smoke.test]
            IN  \A i \in 1..Len(g.fields) :
                    \/ g.fields[i].name \in MistypedFields
                    \/ FieldAgrees(InitOf(now, smoke.unit), g.base, g.fields[i],
                                   smoke.fields[i])

\* meter_age decoded from the registers setup left
C19_MeterAge ==
    \A now \in Nows :
        SmokeOnSetup(now) /\ smoke.test = "energy" => smoke.fields[2] # 0

\* the hosts of the config entries
EntryHosts(fl) == {entry.data.host : entry \in fl.entries}

ErrAlreadyConfigured == {<<"host", "already_configured">>}
ErrInvalidHost == {<<"host", "invalid_host">>}
ErrCannotConnect == {<<"base", "cannot_connect">>}

\* what every state shows: an entry exists for a host only if a flow created
\* it, a flow that created an entry had a valid host and a successful
\* connection test, and a form shown again carries exactly one error, the one
\* of a condition that failed
C18_Outcomes ==
    /\ EntryHosts(flow) = {flow.flows[f].host :
                              f \in {g \in FlowIds : flow.flows[g].stage = "created"}}
    /\ \A f \in FlowIds :
          LET r == flow.flows[f]
          IN  /\ r.stage = "created" => host_valid(r.host) /\ r.connected
              /\ r.stage = "errors" =>
                    /\ Cardinality(r.errors) = 1
                    /\ r.errors \in {ErrAlreadyConfigured, ErrInvalidHost, ErrCannotConnect}
                    /\ r.errors = ErrAlreadyConfigured => r.host \in EntryHosts(flow)
                    /\ r.errors = ErrInvalidHost => ~host_valid(r.host)
                    /\ r.errors = ErrCannotConnect => host_valid(r.host) /\ ~r.connected
              /\ r.stage # "errors" => r.errors = NoErrors

\* what every step of a flow does: a submission of a configured host shows
\* already_configured, of an invalid host not configured invalid_host, and
\* creates nothing; only a host neither configured nor invalid goes on to the
\* connection test; a failed test shows cannot_connect; an entry appears only
\* for the host of a flow whose test succeeded, and that host was not
\* configured just before
C18_Step ==
    \A f \in FlowIds :
        LET r == flow.flows[f]
            q == flow'.flows[f]
        IN  q # r \/ flow'.entries # flow.entries =>
              /\ r.stage \in {"form", "errors"} /\ q # r =>
                    /\ flow'.entries = flow.entries
                    /\ q.host \in EntryHosts(flow) =>
                          q.stage = "errors" /\ q.errors = ErrAlreadyConfigured
                    /\ q.host \notin EntryHosts(flow) /\ ~host_valid(q.host) =>
                          q.stage = "errors" /\ q.errors = ErrInvalidHost
                    /\ q.host \notin EntryHosts(flow) /\ host_valid(q.host) =>
                          q.stage = "testing"
              /\ r.stage = "testing" /\ q # r =>
                    /\ q.host = r.host
                    /\ ~q.connected =>
                          /\ q.stage = "errors" /\ q.errors = ErrCannotConnect
                          /\ flow'.entries = flow.entries
                    /\ q.stage = "created" =>
                          /\ q.connected /\ r.host \notin EntryHosts(flow)
                          /\ \E e \in flow'.entries :
                                /\ e.unique_id = r.host /\ e.data.host = r.host
                                /\ flow'.entries = flow.entries \cup {e}
                    /\ q.stage # "created" => flow'.entries = flow.entries
              /\ q = r => \E g \in FlowIds : flow'.flows[g].stage = "created"
                                              /\ flow.flows[g].stage = "testing"

\* C18: setup wizard gating: async_step_user creates a config entry for the
\* submitted input only when the host is not among the configured hosts,
\* host_valid(host) is true and async_test_connection returned true; when one
\* of the three fails no entry is created and the form is shown again with
\* exactly one error, already_configured, invalid_host or cannot_connect, the
\* first of them that applies.
C18_WizardGating == []C18_Outcomes /\ [][C18_Step]_vars

\* one flow created the entry for "10.0.0.5" while the other, submitting the
\* same host afterwards, is shown already_configured
C18_Witness ==
    /\ flow.flows[1].stage = "created"
    /\ flow.flows[1].host = <<49, 48, 46, 48, 46, 48, 46, 53>>
    /\ flow.flows[2].stage = "errors"
    /\ flow.flows[2].host = flow.flows[1].host
    /\ flow.flows[2].errors = ErrAlreadyConfigured

\* ------------------------------------------------ the slider maximum
\* C21: two-tier slider maximum: when update_value has run with the entity's
\* key in hub data (it handed a call to hub.write_registers), the entity's
\* native maximum is actualMaxCurrent of hub data if that key is present,
\* otherwise MAX_CURRENT_S<socket> if that key is present, otherwise what it
\* was before; actualMaxCurrent wins when both are present.
C21_TwoTierMaximum ==
    [][\A s \in Sockets :
          (ncalls' = ncalls + 1 /\ waiting'[s] # waiting[s]) =>
              nativeMax'[s] =
                  IF hubData'[ACTUAL_MAX_CURRENT] # Absent
                  THEN hubData'[ACTUAL_MAX_CURRENT]
                  ELSE IF hubData'[max_current_key(s)] # Absent
                       THEN hubData'[max_current_key(s)]
                       ELSE nativeMax[s]
      ]_vars

\* hub data holds the station limit 20 and the socket limit 25; the refresh
\* callback of socket 1 ran and left the maximum at 20, and a set-value call
\* of socket 2 made while only the socket limit 25 was there left 25
C21_Witness ==
    /\ hubData = snapshot(<<20, 1>>, <<25, 1>>, <<16, 1>>)
    /\ nativeMax[ADDRESS_SOCKET_1] = <<20, 1>>
    /\ \E i \in 1..Len(Pending(ADDRESS_SOCKET_1)) :
          /\ Pending(ADDRESS_SOCKET_1)[i].caller = "refresh"
          /\ Pending(ADDRESS_SOCKET_1)[i].limit = <<20, 1>>
    /\ nativeMax[ADDRESS_SOCKET_2] = <<25, 1>>

\* C29: no write without a value: a call of update_value made while the
\* entity's key is absent from hub data (the hub's refresh callback; hub data
\* is as it was) hands nothing to hub.write_registers and
\* leaves the entity's native maximum as it was, whatever limits hub data
\* holds.
C29_NoWriteWithoutValue ==
    [][(ncalls' = ncalls + 1 /\ hubData' = hubData) =>
          \A s \in Sockets :
              hubData[entity_key(s)] = Absent =>
                  /\ waiting'[s] = waiting[s]
                  /\ inflight'[s] = inflight[s]
                  /\ nativeMax'[s] = nativeMax[s]
      ]_vars

\* the refresh callback ran before the first successful poll: a call was
\* made, hub data is still empty, and no write waits, is on the wire or was
\* delivered
C29_Witness ==
    /\ ncalls = 1
    /\ hubData = [k \in Keys |-> Absent]
    /\ \A s \in Sockets : Pending(s) = <<>> /\ acked[s] = {}
    /\ nativeMax = [s \in Sockets |-> AttrMax]

\* the values a poll cycle can decode for the entity of socket s
PolledValues(s) == {snap[entity_key(s)] : snap \in PollSnapshots}

\* the values of the calls of unit s that have not resolved
PendingValues(s) == {Pending(s)[i].value : i \in 1..Len(Pending(s))}

\* C30: failed write does not corrupt displayed state: native_value reports
\* nothing, a value decoded from a poll, a value whose write the transport
\* delivered, or the value of a write that has not resolved yet; never the
\* setpoint of a write that failed.
C30_FailedWriteKeepsValue ==
    \A s \in Sockets :
        native_value(hubData, s) \in
            {Absent} \cup PolledValues(s) \cup acked[s] \cup PendingValues(s)

\* ------------------------------------------------------ the mirror loop
\* C25: mirror frame: a tick of update_simulation changes no cell of a socket
\* unit other than those of registers 1206-1207, so never registers 1210-1211,
\* a measurement or an identity register, and no cell of unit 200.
C25_MirrorFrame ==
    [][Tick =>
          \A u \in Units : \A k \in 0..(BlockSize - 1) :
              (u \notin Sockets \/ k \notin {reg(REG_ACTUAL_APPLIED), reg(REG_ACTUAL_APPLIED + 1)})
                  => block_cell(store'[u], k) = block_cell(store[u], k)
      ]_vars

\* socket 1 applied the 14.5 a client commanded, its valid time 1208-1209 and
\* safe current 1212-1213 are what setup stored, and the register 4660 a
\* client wrote at 1206 and at 1210 of unit 200 is still there
C25_Witness ==
    /\ Read2(store, ADDRESS_SOCKET_1, REG_ACTUAL_APPLIED) = encode_float(29, 2)
    /\ Read2(store, ADDRESS_SOCKET_1, REG_SLAVE_MAX_CURRENT) = encode_float(29, 2)
    /\ Read2(store, ADDRESS_SOCKET_1, 1208) = encode_uint32(Wide(60))
    /\ Read2(store, ADDRESS_SOCKET_1, 1212) = encode_float(6, 1)
    /\ Read2(store, ADDRESS_PRODUCT, REG_ACTUAL_APPLIED) = <<4660, 0>>
    /\ Read2(store, ADDRESS_PRODUCT, REG_SLAVE_MAX_CURRENT) = <<4660, 0>>

\* the socket units the context holds
Present == {u \in Sockets : u \in DOMAIN store}

\* C26: mirror loop resilience: the exception raised for a socket unit the
\* server context does not hold is swallowed for that unit: the tick mirrors
\* every socket unit the context holds as if it were alone, changes nothing
\* else, and the task running the loop goes on, so the next tick can run.
C26_MirrorResilience ==
    /\ [](simTask = "running" /\ ENABLED Tick)
    /\ [][Tick =>
            /\ DOMAIN store' = DOMAIN store
            /\ \A u \in DOMAIN store :
                  store'[u] = IF u \in Present THEN mirror_alone(store, u)
                              ELSE store[u]
         ]_vars

\* the context lacks socket 1, the first unit of the loop; a client commanded
\* 14.5 on socket 2 and a tick applied it
C26_Witness ==
    /\ ADDRESS_SOCKET_1 \notin DOMAIN store
    /\ ADDRESS_SOCKET_2 \in DOMAIN store
    /\ simTask = "running"
    /\ ctx_getValues(store[ADDRESS_SOCKET_2], REG_ACTUAL_APPLIED, 2).values = encode_float(29, 2)
    /\ ctx_getValues(store[ADDRESS_SOCKET_2], REG_SLAVE_MAX_CURRENT, 2).values = encode_float(29, 2)

\* ------------------------------------------------ entities and callbacks
\* the callbacks of entity e
CallbacksOf(e) == {modbus_data_updated(e), update_value_callback(e)}

\* C22: listener registration is balanced: the hub holds exactly the update
\* callbacks of the entities that are added and the refresh callbacks
\* (update_value) of the number entities that are added; so once an entity is
\* removed after it was added, the hub holds no callback of it.
C22_BalancedListeners ==
    /\ hass.sensors = {modbus_data_updated(e) : e \in hass.added}
    /\ hass.inputs = {update_value_callback(e) : e \in hass.added \cap NumberEntities}
    /\ \A e \in Entities \ hass.added :
          CallbacksOf(e) \cap (hass.sensors \cup hass.inputs) = {}

\* the number entity of socket 1 and the car-connected sensor of socket 1
\* were added, called by the hub (they wrote a state) and removed; the number
\* entity of socket 2 is added and both of its callbacks are held
C22_Witness ==
    /\ hass.states[<<"number", ADDRESS_SOCKET_1>>].written
    /\ hass.states[<<"binary_sensor", ADDRESS_SOCKET_1, "carconnected">>].written
    /\ hass.added = {<<"number", ADDRESS_SOCKET_2>>}
    /\ hass.sensors = {modbus_data_updated(<<"number", ADDRESS_SOCKET_2>>)}
    /\ hass.inputs = {update_value_callback(<<"number", ADDRESS_SOCKET_2>>)}

\* C23: binary sensor state: the state a binary sensor writes has is_on true
\* if and only if hub data holds socket_<n>_<key> and its value equals 1 (as
\* Python compares: 1, 1.0 and True); it is false when the key is absent or
\* holds another value (0, 2, the string "1"); and the icon is the sensor's on-icon
\* exactly when is_on is true, its off-icon otherwise.
C23_SensorState ==
    [][\A e \in SensorEntities :
          data_updated(e) =>
              LET st == hass'.states[e]
                  key == <<"socket", e[2], e[3]>>
              IN  /\ st.is_on <=>
                        /\ key \in DOMAIN hass.data
                        /\ hass.data[key] \in {<<"int", 1>>, <<"float", 1>>, <<"bool", 1>>}
                  /\ st.icon = IF st.is_on THEN BINARY_SENSOR_TYPES[e[3]].icon_on
                               ELSE BINARY_SENSOR_TYPES[e[3]].icon_off
                  /\ BINARY_SENSOR_TYPES[e[3]].icon_on # BINARY_SENSOR_TYPES[e[3]].icon_off
      ]_vars

\* socket 1 holds 2 under carconnected and 1.0 under carcharging, socket 2
\* True and "1"; the four sensors wrote off, on, on, off
C23_Witness ==
    /\ sensor_key(1, "carconnected") \in DOMAIN hass.data
    /\ hass.data[sensor_key(1, "carconnected")] = <<"int", 2>>
    /\ hass.states[<<"binary_sensor", 1, "carconnected">>] =
          [written |-> TRUE, is_on |-> FALSE, icon |-> "mdi:power-plug-off"]
    /\ hass.states[<<"binary_sensor", 1, "carcharging">>] =
          [written |-> TRUE, is_on |-> TRUE, icon |-> "mdi:battery-charging"]
    /\ hass.states[<<"binary_sensor", 2, "carconnected">>] =
          [written |-> TRUE, is_on |-> TRUE, icon |-> "mdi:power-plug"]
    /\ hass.states[<<"binary_sensor", 2, "carcharging">>] =
          [written |-> TRUE, is_on |-> FALSE, icon |-> "mdi:battery-off"]

\* ------------------------------------------------------ host validation
\* every dot-separated label of host is non-empty and holds only ASCII
\* letters, ASCII digits and hyphens
AsciiLabels(host) ==
    \A k \in 1..Len(SplitOn(host, 46)) :
        LET x == SplitOn(host, 46)[k]
        IN  /\ x # <<>>
            /\ \A i \in 1..Len(x) :
                  x[i] \in (48..57) \cup (65..90) \cup (97..122) \cup {45}

\* true for a literal, otherwise for labels of ASCII letters, digits, hyphens
HostExpected(host) ==
    IF ipv4_address(host) \/ ipv6_address(host) THEN TRUE ELSE AsciiLabels(host)

\* C24: host validation: host_valid(host) is true for every valid IPv4 or
\* IPv6 literal, and for any other input true if and only if every
\* dot-separated label is non-empty and consists only of ASCII letters,
\* digits and hyphens.
C24_HostValidation ==
    (codec.op = "host_valid" /\ codec.done) =>
        codec.out = HostExpected(codec.arg)

\* the same for the inputs made of ASCII characters only
C24_AsciiHostValidation ==
    (codec.op = "host_valid" /\ codec.done
        /\ \A i \in 1..Len(codec.arg) : codec.arg[i] < 128) =>
        codec.out = HostExpected(codec.arg)

\* ------------------------------------------------- the order of the checks
\* what a submission of the user form leaves of flow f
C27_Step ==
    \A f \in FlowIds :
        LET r == flow.flows[f]
            q == flow'.flows[f]
            configured == q.host \in EntryHosts(flow)
        IN  (r.stage \in {"form", "errors"} /\ q # r) =>
              \* the submission stops at the first check that fails
              /\ q.stage \in {"errors", "testing"}
              /\ q.stage = "errors" =>
                    q.errors \in {ErrAlreadyConfigured, ErrInvalidHost}
              \* duplicate host first, whatever the syntax of the host
              /\ configured <=> q.errors = ErrAlreadyConfigured
              \* host syntax second
              /\ q.errors = ErrInvalidHost <=> (~configured /\ ~host_valid(q.host))
              \* the connection test last
              /\ q.stage = "testing" <=> (~configured /\ host_valid(q.host))

\* C27: setup wizard check order: a submission of the user form checks the
\* duplicate host, then the host syntax, then tests the connection, and stops
\* at the first failure: a connection is attempted only to a host that is not
\* configured and passes host_valid, cannot_connect is only ever the result of
\* a failed attempt, and a configured host that fails host_valid is answered
\* with already_configured, not invalid_host.
C27_CheckOrder ==
    /\ [][C27_Step]_vars
    /\ [][\A f \in FlowIds :
            (flow'.flows[f] # flow.flows[f] /\ flow'.flows[f].errors = ErrCannotConnect)
                => (flow.flows[f].stage = "testing" /\ step_user_connected(f, FALSE))
         ]_vars

\* the options flow moved an entry to the host "a_b", which fails host_valid;
\* a user flow submitting "a_b" is shown already_configured
C27_Witness ==
    \E f \in FlowIds :
        /\ flow.flows[f].stage = "errors"
        /\ flow.flows[f].host = <<97, 95, 98>>
        /\ ~host_valid(flow.flows[f].host)
        /\ flow.flows[f].errors = ErrAlreadyConfigured
        /\ flow.flows[f].host \in EntryHosts(flow)

\* ------------------------------------------------------ the options flow
\* the data of the entry with unique id id
DataOf(fl, id) == (CHOOSE e \in fl.entries : e.unique_id = id).data

\* the entry of the options flow got the stored data overlaid with input, the
\* other entries are as they were, and the integration was reloaded once
Committed(input) ==
    LET id == flow.options.entry
        old == DataOf(flow, id)
        new == DataOf(flow', id)
    IN  /\ {e.unique_id : e \in flow'.entries} = {e.unique_id : e \in flow.entries}
        /\ \A e \in flow.entries : e.unique_id # id => e \in flow'.entries
        /\ Cardinality(flow'.entries) = Cardinality(flow.entries)
        /\ DOMAIN new = DOMAIN old
        /\ new.name = old.name
        /\ new.host = input.host
        /\ new.port = input.port
        /\ new.scan_interval = input.scan_interval
        /\ flow'.reloads = flow.reloads + 1
        /\ flow'.options.stage = "done"

\* the entries and the reload count are as they were
Untouched == flow'.entries = flow.entries /\ flow'.reloads = flow.reloads

C28_Step ==
    /\ \A input \in OptionInputs :
          step_init_submit(input) =>
              LET old == DataOf(flow, flow.options.entry)
              IN  IF input.host # old.host \/ input.port # old.port
                  THEN flow'.options.stage = "testing" /\ Untouched
                  ELSE Committed(input)
    /\ step_init_connected(FALSE) =>
          /\ Untouched
          /\ flow'.options.stage = "errors"
          /\ flow'.options.errors = ErrCannotConnect
    /\ step_init_connected(TRUE) => Committed(flow.options.input)

\* C28: options flow leaves the entry unchanged on error: a submission of the
\* options form tests the connection if and only if the submitted host or
\* port differs from the stored one; when the test fails the entry's data and
\* the reload count are as they were and the form is shown again with
\* cannot_connect; when host and port are the stored ones, or the test
\* succeeds, the entry's data becomes the stored data overlaid with the input
\* (the name is kept) and the integration is reloaded exactly once.
C28_OptionsFlow == [][C28_Step]_vars

\* the entry created for "10.0.0.5" got the scan interval 30 from a first
\* submission that left host and port alone (one reload, no connection test);
\* a second submission moving it to "a_b" failed its connection test: the form
\* shows cannot_connect, the data and the reload count are as they were
C28_Witness ==
    /\ flow.options.stage = "errors"
    /\ flow.options.errors = ErrCannotConnect
    /\ flow.options.input.host = <<97, 95, 98>>
    /\ flow.reloads = 1
    /\ flow.entries =
          {[unique_id |-> <<49, 48, 46, 48, 46, 48, 46, 53>>,
            data |-> [name |-> "Alfen", host |-> <<49, 48, 46, 48, 46, 48, 46, 53>>,
                      port |-> 502, scan_interval |-> 30]]}
=============================================================================
